---- MODULE Spec2Model ----
(***************************************************************************)
(* Model of the agent-chain node: the chain engine (pkg/blockchain), the   *)
(* data model it hashes (pkg/types) and the block production step of the   *)
(* consensus engine (pkg/consensus).                                       *)
(*                                                                         *)
(* Go pointers are modelled explicitly.  The account map holds             *)
(* *types.Account values, so `accounts` maps an address to a cell          *)
(* identifier and `heap` maps a cell identifier to the Account struct it   *)
(* holds; two map keys may name the same cell.                             *)
(*                                                                         *)
(* SHA-256 is modelled as an injective constructor (NewHash): two hashes   *)
(* are equal exactly when the hashed contents are equal.  Amounts and      *)
(* balances stay far below 2^63, so int64 arithmetic never wraps in the    *)
(* model.                                                                  *)
(***************************************************************************)
EXTENDS Integers, Sequences, FiniteSets, Bags, TLC

(***************************************************************************)
(* Bounds of the model.                                                    *)
(***************************************************************************)
MaxHeight == 2      \* AddBlock / produceBlock are explored while height < MaxHeight
MaxBlockTxs == 2    \* longest transaction list of a block handed to AddBlock
MaxPool == 1        \* largest mempool explored
MaxNonce == 2       \* AddBlock is explored while the account nonces sum to less
MaxFaults == 1      \* file writes that the file system fails
MaxInFlight == 2    \* messages sent and not yet received
MaxConcHeight == 1    \* blocks appended while goroutines run concurrently
MaxStarts == 3        \* starts of the node process on one data directory
MaxDiscHeight == 1    \* blocks a node produces while its broadcasts are explored
MaxEngineStarts == 2  \* successful calls of Engine.Start on one engine
BulkCount == 101      \* addresses of the longest addr message
MaxBook == 5          \* largest address table a discovery iteration is explored on
MaxAttempts == 10     \* attempts counted on one address
MaxClock == 25        \* hours the clock is followed for
MaxCut == 1           \* addresses a reply to getaddr leaves out for want of room
MaxRounds == 1        \* iterations of the discovery loop followed step by step
MaxTasks == 3         \* goroutines that take locks side by side

(***************************************************************************)
(* Program constants.                                                      *)
(***************************************************************************)
DefaultInitialReward == 1000
DefaultMaxTxPerBlock == 1000
TxTypeTransfer == "transfer"
TxTypePatchSubmit == "patch_submit"
TxTypeStake == "stake"

(***************************************************************************)
(* Error values returned by the chain engine.                              *)
(***************************************************************************)
Ok == "ok"
ErrHeight == "invalid height"
ErrPrevHash == "invalid previous hash"
ErrBlockHash == "invalid block hash"
ErrInPool == "transaction already in pool"
ErrSignature == "missing signature"
ErrBalance == "insufficient balance"
ErrUnknownType == "unknown transaction type"
ErrPatchSet == "missing patch set"
ErrWriteBlocks == "write blocks.json failed"
ErrWriteAccounts == "write accounts.json failed"
ErrReadBlocks == "read blocks.json failed"
ErrReadAccounts == "read accounts.json failed"

(***************************************************************************)
(* pkg/types: hashes.                                                      *)
(***************************************************************************)
ZeroHash == [kind |-> "zero"]

NewHash(data) == [kind |-> "sha256", data |-> data]

(***************************************************************************)
(* pkg/types: transactions.  `patchSet` is TRUE when the PatchSet pointer  *)
(* is non-nil, `signature` is TRUE when len(Signature) > 0, `hash` is the  *)
(* Hash field as the transaction carries it.                               *)
(***************************************************************************)
Tx(type, from, to, amount, patchSet, signature) ==
    [type |-> type, from |-> from, to |-> to, amount |-> amount,
     patchSet |-> patchSet, signature |-> signature, hash |-> ZeroHash]

TxCalculateHash(tx) ==
    NewHash([tx EXCEPT !.hash = ZeroHash, !.signature = FALSE])

WithHash(tx) == [tx EXCEPT !.hash = TxCalculateHash(tx)]

(***************************************************************************)
(* pkg/types: blocks.                                                      *)
(***************************************************************************)
\* One level of the tree: the hashes are combined in pairs, and the last of
\* an odd number is carried up alone.
MerkleLevel(hashes) ==
    [k \in 1..((Len(hashes) + 1) \div 2) |->
        IF 2 * k <= Len(hashes)
        THEN NewHash([left |-> hashes[2 * k - 1], right |-> hashes[2 * k]])
        ELSE hashes[2 * k - 1]]

RECURSIVE MerkleReduce(_)
MerkleReduce(hashes) ==
    IF Len(hashes) > 1 THEN MerkleReduce(MerkleLevel(hashes)) ELSE hashes[1]

calculateMerkleRoot(b) ==
    IF Len(b.txs) = 0 THEN ZeroHash
    ELSE MerkleReduce([i \in 1..Len(b.txs) |-> b.txs[i].hash])

\* The block as CalculateHash leaves it: the receiver's MerkleRoot is overwritten.
SetMerkleRoot(b) == [b EXCEPT !.header.merkleRoot = calculateMerkleRoot(b)]

BlockCalculateHash(b) ==
    NewHash([SetMerkleRoot(b).header EXCEPT !.hash = ZeroHash])

(***************************************************************************)
(* Maps (Go map[K]V) as functions with a finite domain.                    *)
(***************************************************************************)
EmptyMap == [k \in {} |-> 0]

Put(m, k, v) == [x \in DOMAIN m \cup {k} |-> IF x = k THEN v ELSE m[x]]

Delete(m, k) == [x \in DOMAIN m \ {k} |-> m[x]]

(***************************************************************************)
(* The configuration NewBlockchain is given.  GenesisAccounts is the       *)
(* []types.Account of the ChainConfig, every account with the same initial *)
(* balance as createGenesisAccounts gives them (scaled down); Validator is *)
(* the address derived from the node's key pair.                           *)
(***************************************************************************)
GenesisAccounts ==
    << [address |-> "G1", balance |-> 500, nonce |-> 0],
       [address |-> "G2", balance |-> 500, nonce |-> 0] >>

Addresses == {"G1", "G2", "B"}

Validator == "V"

Timestamps == {1}

(***************************************************************************)
(* Cells of the heap that hold a types.Account.  LoopVarCell is the single *)
(* variable `acc` of the range loop of initGenesis (the program is built   *)
(* with Go 1.21, where a range loop has one variable for all iterations).  *)
(* A cell allocated by GetAccount is named after the map key it is stored  *)
(* under once the caller has stored it; until then it is a fresh cell.     *)
(***************************************************************************)
LoopVarCell == "&acc"
FreshFrom == "new(from)"
FreshTo == "new(to)"
FreshCells == {FreshFrom, FreshTo}

ZeroAccount(addr) == [address |-> addr, balance |-> 0, nonce |-> 0]

NilBlock == [nil |-> TRUE]

\* The zero value of the Blockchain struct that NewBlockchain starts from.
EmptyChain ==
    [blocks |-> <<>>, accounts |-> EmptyMap, heap |-> EmptyMap,
     txPool |-> EmptyMap, lastBlock |-> NilBlock, height |-> 0]

\* The struct that the pointer returned by GetAccount points to.
GetAccount(s, addr) ==
    IF addr \in DOMAIN s.accounts THEN s.heap[s.accounts[addr]]
    ELSE ZeroAccount(addr)

\* The pointer returned by GetAccount: the stored cell, or a new cell.
GetAccountRef(s, addr, fresh) ==
    IF addr \in DOMAIN s.accounts THEN s.accounts[addr] ELSE fresh

\* The heap after GetAccount(addr) returned `ref`.
Alloc(heap, ref, addr) ==
    IF ref \in DOMAIN heap THEN heap ELSE Put(heap, ref, ZeroAccount(addr))

\* Drops the cells no map entry points to, and names each fresh cell after
\* the key that holds it.
Normalize(s) ==
    LET name(k) == IF s.accounts[k] \in FreshCells THEN k ELSE s.accounts[k]
        named == [k \in DOMAIN s.accounts |-> name(k)]
        ids == {named[k] : k \in DOMAIN s.accounts}
        holder(id) == CHOOSE k \in DOMAIN s.accounts : named[k] = id
    IN  [s EXCEPT !.accounts = named,
                  !.heap = [id \in ids |-> s.heap[s.accounts[holder(id)]]]]

(***************************************************************************)
(* pkg/blockchain: transaction validation and application.                 *)
(***************************************************************************)
validateTransaction(s, tx) ==
    IF tx.hash \in DOMAIN s.txPool THEN ErrInPool
    ELSE IF ~tx.signature THEN ErrSignature
    ELSE IF tx.type = TxTypeTransfer /\ GetAccount(s, tx.from).balance < tx.amount
         THEN ErrBalance
    ELSE Ok

applyTransfer(s, tx) ==
    LET fromAccount == GetAccountRef(s, tx.from, FreshFrom)
        toAccount == GetAccountRef(s, tx.to, FreshTo)
        h0 == Alloc(Alloc(s.heap, fromAccount, tx.from), toAccount, tx.to)
        h1 == [h0 EXCEPT ![fromAccount].balance = @ - tx.amount]
        h2 == [h1 EXCEPT ![fromAccount].nonce = @ + 1]
        h3 == [h2 EXCEPT ![toAccount].balance = @ + tx.amount]
        a1 == Put(s.accounts, tx.from, fromAccount)
        a2 == Put(a1, tx.to, toAccount)
    IN  IF h0[fromAccount].balance < tx.amount
        THEN [err |-> ErrBalance, s |-> s]
        ELSE [err |-> Ok, s |-> Normalize([s EXCEPT !.heap = h3, !.accounts = a2])]

applyPatchSubmit(s, tx) ==
    LET account == GetAccountRef(s, tx.from, FreshFrom)
        h0 == Alloc(s.heap, account, tx.from)
        h1 == [h0 EXCEPT ![account].balance = @ + DefaultInitialReward]
        h2 == [h1 EXCEPT ![account].nonce = @ + 1]
    IN  IF ~tx.patchSet
        THEN [err |-> ErrPatchSet, s |-> s]
        ELSE [err |-> Ok,
              s |-> Normalize([s EXCEPT !.heap = h2,
                                        !.accounts = Put(s.accounts, tx.from, account)])]

applyTransaction(s, tx) ==
    IF tx.type = TxTypeTransfer THEN applyTransfer(s, tx)
    ELSE IF tx.type = TxTypePatchSubmit THEN applyPatchSubmit(s, tx)
    ELSE [err |-> ErrUnknownType, s |-> s]

(***************************************************************************)
(* pkg/blockchain: persistence.  The data directory holds blocks.json (the *)
(* block list), accounts.json (the Account structs the map entries point   *)
(* to, as a list without keys) and possibly genesis.json, which the chain  *)
(* engine tests for but never writes.  `io` is the outcome of the file     *)
(* system: "ok", or the write that fails.  A failed write leaves the file  *)
(* as it was.                                                              *)
(***************************************************************************)
IoOutcomes == {"ok", "blocks", "accounts"}

FreshDisk == [files |-> {}, blocksJson |-> <<>>, accountsJson |-> {}]

accountsList(s) == {s.heap[s.accounts[k]] : k \in DOMAIN s.accounts}

saveToDisk(s, d, io) ==
    LET d1 == [d EXCEPT !.files = @ \cup {"blocks.json"}, !.blocksJson = s.blocks]
        d2 == [d1 EXCEPT !.files = @ \cup {"accounts.json"},
                         !.accountsJson = accountsList(s)]
    IN  IF io = "blocks" THEN [err |-> ErrWriteBlocks, disk |-> d]
        ELSE IF io = "accounts" THEN [err |-> ErrWriteAccounts, disk |-> d1]
        ELSE [err |-> Ok, disk |-> d2]

\* The list is read back into a map keyed by each record's own Address; were
\* two records to carry one address, the one read last would stay.
loadFromDisk(s, d) ==
    LET keys == {r.address : r \in d.accountsJson}
        rec(k) == CHOOSE r \in d.accountsJson : r.address = k
        loaded == [s EXCEPT !.blocks = d.blocksJson,
                            !.accounts = [k \in keys |-> k],
                            !.heap = [k \in keys |-> rec(k)]]
        n == Len(d.blocksJson)
    IN  IF "blocks.json" \notin d.files THEN [err |-> ErrReadBlocks, s |-> s]
        ELSE IF "accounts.json" \notin d.files
             THEN [err |-> ErrReadAccounts, s |-> [s EXCEPT !.blocks = d.blocksJson]]
        ELSE IF n > 0
             THEN [err |-> Ok,
                   s |-> [loaded EXCEPT !.lastBlock = d.blocksJson[n],
                                        !.height = d.blocksJson[n].header.height]]
        ELSE [err |-> Ok, s |-> loaded]

GenesisBlock(now) ==
    LET genesis == [header |-> [height |-> 0, prevHash |-> ZeroHash,
                                merkleRoot |-> ZeroHash, timestamp |-> now,
                                difficulty |-> 1, nonce |-> 0,
                                validator |-> "", hash |-> ZeroHash],
                    txs |-> <<>>]
    IN  [SetMerkleRoot(genesis) EXCEPT !.header.hash = BlockCalculateHash(genesis)]

\* for _, acc := range GenesisAccounts { accounts[acc.Address] = &acc }:
\* every key holds the address of the one loop variable, which is left
\* holding the last element.
GenesisAccountMapOf(s, genesisAccounts) ==
    LET n == Len(genesisAccounts)
    IN  [s EXCEPT !.accounts = [a \in {genesisAccounts[i].address : i \in 1..n}
                                    |-> LoopVarCell],
                  !.heap = IF n = 0 THEN EmptyMap
                           ELSE [c \in {LoopVarCell} |-> genesisAccounts[n]]]

GenesisAccountMap(s) == GenesisAccountMapOf(s, GenesisAccounts)

\* initGenesis of a chain whose config holds `genesisAccounts`.
initGenesisOf(s, d, now, io, genesisAccounts) ==
    IF "genesis.json" \in d.files
    THEN [err |-> loadFromDisk(s, d).err, s |-> loadFromDisk(s, d).s, disk |-> d]
    ELSE LET genesis == GenesisBlock(now)
             s1 == GenesisAccountMapOf([s EXCEPT !.blocks = Append(@, genesis),
                                                 !.lastBlock = genesis],
                                       genesisAccounts)
             sv == saveToDisk(s1, d, io)
         IN  [err |-> sv.err, s |-> s1, disk |-> sv.disk]

initGenesis(s, d, now, io) == initGenesisOf(s, d, now, io, GenesisAccounts)

NewBlockchainOf(d, now, io, genesisAccounts) ==
    initGenesisOf(EmptyChain, d, now, io, genesisAccounts)

NewBlockchain(d, now, io) == NewBlockchainOf(d, now, io, GenesisAccounts)

(***************************************************************************)
(* pkg/blockchain: AddBlock and AddTransaction.                            *)
(***************************************************************************)
\* The loop of validateBlock over block.Txs: the error of the first
\* transaction, from i on, that validateTransaction refuses.
validateTransactions(s, txs, i) ==
    LET refused == {k \in i..Len(txs) : validateTransaction(s, txs[k]) # Ok}
        first == CHOOSE k \in refused : \A j \in refused : k <= j
    IN  IF refused = {} THEN Ok ELSE validateTransaction(s, txs[first])

\* validateBlock as it would be if it refused only the blocks above the next
\* height, and let a block of a height the chain already holds through.
validateBlock_AcceptsOldHeight(s, block) ==
    IF block.header.height > s.height + 1 THEN ErrHeight
    ELSE IF s.lastBlock # NilBlock /\ block.header.prevHash # s.lastBlock.header.hash
         THEN ErrPrevHash
    ELSE IF block.header.hash # BlockCalculateHash(block) THEN ErrBlockHash
    ELSE validateTransactions(s, block.txs, 1)

validateBlock(s, block) ==
    IF block.header.height # s.height + 1 THEN ErrHeight
    ELSE IF s.lastBlock # NilBlock /\ block.header.prevHash # s.lastBlock.header.hash
         THEN ErrPrevHash
    ELSE IF block.header.hash # BlockCalculateHash(block) THEN ErrBlockHash
    ELSE validateTransactions(s, block.txs, 1)

\* The loop of AddBlock over block.Txs: it stops at the first transaction
\* that fails; what was applied before it stays applied.
RECURSIVE applyRange(_, _, _, _)
applyRange(s, txs, lo, hi) ==
    IF lo > hi THEN [err |-> Ok, s |-> s]
    ELSE IF lo = hi
    THEN LET r == applyTransaction(s, txs[lo])
         IN  IF r.err # Ok THEN [err |-> r.err, s |-> r.s]
             ELSE [err |-> Ok, s |-> [r.s EXCEPT !.txPool = Delete(@, txs[lo].hash)]]
    ELSE LET mid == (lo + hi) \div 2
             r == applyRange(s, txs, lo, mid)
         IN  IF r.err # Ok THEN r ELSE applyRange(r.s, txs, mid + 1, hi)

applyTransactions(s, txs, i) == applyRange(s, txs, i, Len(txs))

AddBlock(s, d, block, io) ==
    LET stored == SetMerkleRoot(block)
        ap == applyTransactions(s, stored.txs, 1)
        s2 == [ap.s EXCEPT !.blocks = Append(@, stored),
                           !.lastBlock = stored,
                           !.height = stored.header.height]
        sv == saveToDisk(s2, d, io)
    IN  IF validateBlock(s, block) # Ok
        THEN [err |-> validateBlock(s, block), s |-> s, disk |-> d]
        ELSE IF ap.err # Ok THEN [err |-> ap.err, s |-> ap.s, disk |-> d]
        ELSE [err |-> sv.err, s |-> s2, disk |-> sv.disk]

AddTransaction(s, tx) ==
    IF validateTransaction(s, tx) # Ok
    THEN [err |-> validateTransaction(s, tx), s |-> s]
    ELSE [err |-> Ok,
          s |-> [s EXCEPT !.txPool = Put(@, TxCalculateHash(tx), WithHash(tx))]]

(***************************************************************************)
(* pkg/consensus: produceBlock.  `pending` is the slice that               *)
(* GetPendingTransactions returns: the mempool in the order the map        *)
(* iteration happened to yield.                                            *)
(***************************************************************************)
PendingOrders(s) ==
    {p \in [1..Cardinality(DOMAIN s.txPool) -> DOMAIN s.txPool] :
        \A i, j \in DOMAIN p : i # j => p[i] # p[j]}

Truncate(q, n) == IF Len(q) > n THEN SubSeq(q, 1, n) ELSE q

\* The block produceBlock builds on a node whose key pair has the address
\* `validator`.
NewBlockBy(validator, s, pending, now) ==
    LET order == Truncate(pending, DefaultMaxTxPerBlock)
        block == [header |-> [height |-> s.height + 1,
                              prevHash |-> s.lastBlock.header.hash,
                              merkleRoot |-> ZeroHash, timestamp |-> now,
                              difficulty |-> 1, nonce |-> 0,
                              validator |-> validator, hash |-> ZeroHash],
                  txs |-> [i \in 1..Len(order) |-> s.txPool[order[i]]]]
    IN  [SetMerkleRoot(block) EXCEPT !.header.hash = BlockCalculateHash(block)]

NewBlock(s, pending, now) == NewBlockBy(Validator, s, pending, now)

produceBlock(s, d, pending, now, io) == AddBlock(s, d, NewBlock(s, pending, now), io)

(***************************************************************************)
(* Inputs of the calls.                                                    *)
(***************************************************************************)
TransferA == Tx(TxTypeTransfer, "G1", "B", 300, FALSE, TRUE)

TxBodies ==
    { TransferA,
      Tx(TxTypeTransfer, "G1", "B", -1, FALSE, TRUE),
      Tx(TxTypeTransfer, "B", "G1", 300, FALSE, TRUE),
      Tx(TxTypePatchSubmit, "G1", "G1", 0, TRUE, TRUE),
      Tx(TxTypePatchSubmit, "B", "B", 0, FALSE, TRUE),
      Tx(TxTypeStake, "G1", "G1", 100, FALSE, TRUE) }

\* A transaction arrives with its Hash field set to its computed hash, or
\* (TransferA) with the field left zero.
TxInputs == {WithHash(t) : t \in TxBodies} \cup {TransferA}

\* What callers hand to AddTransaction: TransferA with its hash, with the
\* Hash field left zero, and without a signature, and a transfer from an
\* account that has no funds at first.
SubmitInputs ==
    { WithHash(TransferA), TransferA,
      WithHash([TransferA EXCEPT !.signature = FALSE]),
      WithHash(Tx(TxTypeTransfer, "B", "G1", 300, FALSE, TRUE)) }

TxLists == UNION {[1..n -> TxInputs] : n \in 0..MaxBlockTxs}

\* The block a caller hands to AddBlock: well formed for the chain as it
\* is, or (with at most one transaction) with one header field wrong: the
\* height of the current tip (on top of the tip, or next to it, as the block
\* another node produced at that height), the height after the next, a zero
\* PrevHash, or a Hash that was never set.
BlockInputs(s) ==
    LET header(h, p) == [height |-> h, prevHash |-> p, merkleRoot |-> ZeroHash,
                         timestamp |-> CHOOSE t \in Timestamps : TRUE,
                         difficulty |-> 1, nonce |-> 0, validator |-> Validator,
                         hash |-> ZeroHash]
        seal(b) == [b EXCEPT !.header.hash = BlockCalculateHash(b)]
        good(txs) == [header |-> header(s.height + 1, s.lastBlock.header.hash),
                      txs |-> txs]
        sameHeight(txs) == [header |-> header(s.height, s.lastBlock.header.hash),
                            txs |-> txs]
        competing(txs) == [header |-> header(s.height, s.lastBlock.header.prevHash),
                           txs |-> txs]
        future(txs) == [header |-> header(s.height + 2, s.lastBlock.header.hash),
                        txs |-> txs]
        badPrev(txs) == [header |-> header(s.height + 1, ZeroHash), txs |-> txs]
    IN  {seal(good(txs)) : txs \in TxLists}
        \cup UNION {{seal(sameHeight(txs)), seal(competing(txs)), seal(future(txs)),
                     seal(badPrev(txs)), good(txs)}
                       : txs \in {l \in TxLists : Len(l) <= 1}}

(***************************************************************************)
(* pkg/network and pkg/consensus: nodes, messages and the engine's message *)
(* handlers.  Every node is started by the same program: it draws its own  *)
(* genesis accounts (createGenesisAccounts makes fresh key pairs on every  *)
(* start), has its own key pair, and is a validator (NewEngine).  The      *)
(* nodes are connected to each other.  A message is the JSON the sender    *)
(* wrote; its Data is an object, or absent.                                *)
(***************************************************************************)
\* A key that a decoded JSON object does not hold.
NoField == [absent |-> TRUE]

Nodes == {"N1", "N2", "N3"}

Peers(n) == Nodes \ {n}

GenesisAccountsOf(n) ==
    IF n = "N1" THEN GenesisAccounts
    ELSE IF n = "N2"
    THEN << [address |-> "H1", balance |-> 500, nonce |-> 0],
            [address |-> "H2", balance |-> 500, nonce |-> 0] >>
    ELSE << [address |-> "K1", balance |-> 500, nonce |-> 0],
            [address |-> "K2", balance |-> 500, nonce |-> 0] >>

ValidatorOf(n) ==
    IF n = "N1" THEN Validator ELSE IF n = "N2" THEN "V2" ELSE "V3"

MsgTypeBlock == "block"
MsgTypeTransaction == "transaction"
MsgTypeGetBlocks == "get_blocks"
MsgTypeGetHeight == "get_height"
MsgTypeHeight == "height"

\* The message types Engine.Start registers a handler for.
RegisteredTypes ==
    {MsgTypeBlock, MsgTypeTransaction, MsgTypeGetHeight, MsgTypeGetBlocks}

Message(type, data, from, to) ==
    [type |-> type, data |-> data, from |-> from, to |-> to]

Broadcast(n, type, data) == {Message(type, data, n, p) : p \in Peers(n)}

SendToPeer(n, p, type, data) == {Message(type, data, n, p)}

RequestHeight(n, p) == SendToPeer(n, p, MsgTypeGetHeight, NoField)

RequestBlocks(n, p, fromHeight) ==
    SendToPeer(n, p, MsgTypeGetBlocks, [from_height |-> fromHeight])

\* A node right after its start on a fresh data directory.
NodeChain(n) ==
    LET r == NewBlockchainOf(FreshDisk, CHOOSE t \in Timestamps : TRUE, "ok",
                             GenesisAccountsOf(n))
    IN  [mem |-> r.s, disk |-> r.disk]

\* Each handler gives the node's chain as it leaves it, the messages it
\* sends, and its error.
handleBlock(n, c, msg) ==
    IF msg.data = NoField
    THEN [err |-> "invalid block data format", chain |-> c, sent |-> {}]
    ELSE [err |-> Ok, chain |-> c, sent |-> {}]

handleTransaction(n, c, msg) ==
    IF msg.data = NoField
    THEN [err |-> "invalid transaction data format", chain |-> c, sent |-> {}]
    ELSE [err |-> Ok, chain |-> c, sent |-> {}]

handleGetHeight(n, c, msg) ==
    [err |-> Ok, chain |-> c,
     sent |-> SendToPeer(n, msg.from, MsgTypeHeight, [height |-> c.mem.height])]

handleGetBlocks(n, c, msg) ==
    IF msg.data = NoField
    THEN [err |-> "invalid get blocks data format", chain |-> c, sent |-> {}]
    ELSE IF "from_height" \notin DOMAIN msg.data
    THEN [err |-> "invalid from_height", chain |-> c, sent |-> {}]
    ELSE [err |-> Ok, chain |-> c, sent |-> {}]

\* Network.handleStream: the registered handler of the message's type runs;
\* a message of a type without a handler is logged and dropped.
handleStream(n, c, msg) ==
    IF msg.type = MsgTypeBlock THEN handleBlock(n, c, msg)
    ELSE IF msg.type = MsgTypeTransaction THEN handleTransaction(n, c, msg)
    ELSE IF msg.type = MsgTypeGetHeight THEN handleGetHeight(n, c, msg)
    ELSE IF msg.type = MsgTypeGetBlocks THEN handleGetBlocks(n, c, msg)
    ELSE [err |-> "no handler", chain |-> c, sent |-> {}]

HandlerOf(type) ==
    IF type = MsgTypeBlock THEN "handleBlock"
    ELSE IF type = MsgTypeTransaction THEN "handleTransaction"
    ELSE IF type = MsgTypeGetHeight THEN "handleGetHeight"
    ELSE IF type = MsgTypeGetBlocks THEN "handleGetBlocks"
    ELSE "none"

\* Engine.produceBlock on node n: the block is added to the node's chain
\* and, when that succeeded, broadcast.
produceBlockAt(n, c, pending, now, io) ==
    LET block == NewBlockBy(ValidatorOf(n), c.mem, pending, now)
        r == AddBlock(c.mem, c.disk, block, io)
    IN  [err |-> r.err, chain |-> [mem |-> r.s, disk |-> r.disk],
         sent |-> IF r.err = Ok THEN Broadcast(n, MsgTypeBlock, block) ELSE {}]

\* Engine.SubmitTransaction on node n: the transaction is added to the
\* node's mempool and, when that succeeded, broadcast with its hash set.
SubmitTransaction(n, c, tx) ==
    LET r == AddTransaction(c.mem, tx)
    IN  [err |-> r.err, chain |-> [c EXCEPT !.mem = r.s],
         sent |-> IF r.err = Ok THEN Broadcast(n, MsgTypeTransaction, WithHash(tx))
                  ELSE {}]

\* Engine.syncWithPeers on node n, `first` being the peer GetPeers lists
\* first.
syncWithPeers(n, first) == RequestHeight(n, first)

(***************************************************************************)
(* pkg/network: the live peer table and peer discovery.  The peer table    *)
(* (Network.peers) of a node is the set of the peer ids it holds: other    *)
(* nodes of the network, and remote peers outside it.  A multiaddr is kept *)
(* by its parts: the ip and tcp port, and the /p2p/ peer id, which may be  *)
(* absent.  The DNS seeds resolve to no address.                           *)
(***************************************************************************)
MaxPeers == 50

MinPeers == 8

InitialQuality == 50

MinCandidateQuality == 10

MinSharedQuality == 30

MsgTypeGetAddr == "getaddr"

MsgTypeAddr == "addr"

ErrStream == "failed to create stream"

ErrWrite == "failed to write to stream"

ErrPeerID == "invalid peer ID"

ErrPeerInfo == "failed to get peer info"

ErrConnect == "failed to connect to peer"

HardcodedSeeds == {"127.0.0.1:9001", "127.0.0.1:9002", "127.0.0.1:9003"}

\* The remote peers outside the network: one more than the table may hold.
\* The peer id of a multiaddr without a /p2p/ part.
NoPeerID == ""

RemoteId(i) == "R" \o ToString(i)

Remotes == {RemoteId(i) : i \in 1..(MaxPeers + 1)}

EmptyTable == {}

\* Network.GetPeerCount.
GetPeerCount(table) == Cardinality(table)

\* n.peers[id] = &NodeInfo{...} for a node of the network or a remote peer.
AddPeer(table, id) == table \cup {id}

AddressExchangeCount == 100

MaxAddressAge == 24

ErrAddressFormat == "invalid address format"

ErrMultiaddr == "failed to parse multiaddr"

\* The address of the k-th of the many endpoints one addr message may name.
BulkHost(k) == "10.1.0." \o ToString(k)

BulkAddresses == {BulkHost(k) \o ":9001" : k \in 1..BulkCount}

\* strings.Split(address, ":") of the texts peers send besides the many
\* addresses.
ColonParts ==
    ("127.0.0.1:9001" :> <<"127.0.0.1", "9001">>) @@
    ("127.0.0.1:9002" :> <<"127.0.0.1", "9002">>) @@
    ("127.0.0.1:9003" :> <<"127.0.0.1", "9003">>) @@
    ("10.0.0.1:9001/p2p/R1" :> <<"10.0.0.1", "9001/p2p/R1">>) @@
    ("10.0.0.2:x" :> <<"10.0.0.2", "x">>) @@
    ("localhost:9001" :> <<"localhost", "9001">>) @@
    ("10.0.0.3" :> <<"10.0.0.3">>) @@
    ("10.0.0.4:" :> <<"10.0.0.4", "">>) @@
    ("10.0.0.5:90:01" :> <<"10.0.0.5", "90", "01">>)

\* strings.Split(address, ":").
SplitColon(address) ==
    IF address \in DOMAIN ColonParts THEN ColonParts[address]
    ELSE <<CHOOSE h \in {BulkHost(k) : k \in 1..BulkCount} : h \o ":9001" = address,
           "9001">>

\* strings.Split(text, "/") of the texts that follow the colon.
SlashParts ==
    ("9001" :> <<"9001">>) @@ ("9002" :> <<"9002">>) @@ ("9003" :> <<"9003">>) @@
    ("9001/p2p/R1" :> <<"9001", "p2p", "R1">>) @@ ("x" :> <<"x">>) @@
    ("" :> <<"">>) @@ ("90" :> <<"90">>)

SplitSlash(text) == SlashParts[text]

\* net.ParseIP: whether the text is an IP address.
ParseIP(text) ==
    \/ text \in {"127.0.0.1", "10.0.0.1", "10.0.0.2", "10.0.0.3", "10.0.0.4",
                 "10.0.0.5"}
    \/ text \in {BulkHost(k) : k \in 1..BulkCount}

\* Whether the text is a TCP port.
IsPort(text) == text \in {"9001", "9002", "9003", "90"}

\* multiaddr.NewMultiaddr of /ip4/<host>/tcp/<port>, where <port> may bring
\* further components with it.
NewMultiaddr(host, port) ==
    LET c == SplitSlash(port)
        tcp == host \o ":" \o c[1]
    IN  IF ~ParseIP(host) \/ ~IsPort(c[1])
        THEN [err |-> ErrMultiaddr, maddr |-> [addr |-> "", p2p |-> NoPeerID]]
        ELSE IF Len(c) = 1
        THEN [err |-> Ok, maddr |-> [addr |-> tcp, p2p |-> NoPeerID]]
        ELSE IF Len(c) = 3 /\ c[2] = "p2p"
        THEN [err |-> Ok, maddr |-> [addr |-> tcp, p2p |-> c[3]]]
        ELSE [err |-> ErrMultiaddr, maddr |-> [addr |-> "", p2p |-> NoPeerID]]

\* isValidAddress.
isValidAddress(address) ==
    LET parts == SplitColon(address)
    IN  /\ Len(parts) = 2
        /\ ParseIP(parts[1])
        /\ parts[2] # ""

\* Network.IsConnected.
IsConnected(table, address) == FALSE

\* The AddressInfo addKnownAddress makes.
NewAddressInfo(now) ==
    [lastSeen |-> now, quality |-> InitialQuality, attempts |-> 0, success |-> 0]

\* addKnownAddress.
addKnownAddress(known, address, now) ==
    IF address \in DOMAIN known THEN known
    ELSE [a \in DOMAIN known \cup {address} |->
            IF a = address THEN NewAddressInfo(now) ELSE known[a]]

\* The discovery loop before its first iteration: `pc` is its place in
\* discoverAndConnect, `todo` the candidates it has not attempted yet,
\* `address` the one it dials, `rounds` the iterations it has begun.
NoDial == [pc |-> "idle", todo |-> {}, address |-> "", rounds |-> 0]

\* initializeSeedNodes: every hardcoded seed becomes known (the DNS seeds do
\* not resolve).
SeedAddrs == [a \in HardcodedSeeds |-> NewAddressInfo(0)]

\* parseAddress: the two parts of "host:port" become /ip4/host/tcp/port.
parseAddress(address) ==
    LET parts == SplitColon(address)
    IN  IF Len(parts) # 2
        THEN [err |-> ErrAddressFormat, maddr |-> [addr |-> "", p2p |-> NoPeerID]]
        ELSE NewMultiaddr(parts[1], parts[2])

\* The endpoint a peer listens on: the nodes are the local test nodes of
\* HardcodedSeeds.
ListenAddress(id) ==
    IF id = "N1" THEN "127.0.0.1:9001"
    ELSE IF id = "N2" THEN "127.0.0.1:9002"
    ELSE IF id = "N3" THEN "127.0.0.1:9003"
    ELSE IF id = "R1" THEN "10.0.0.1:9001"
    ELSE ""

\* The multiaddr of a boot node, which ends in /p2p/<peer id>.
BootAddr(id) == [addr |-> ListenAddress(id), p2p |-> id]

\* peer.AddrInfoFromP2pAddr: fails for a multiaddr without a /p2p/ part.
AddrInfoFromP2pAddr(maddr) ==
    IF maddr.p2p = NoPeerID THEN [err |-> ErrPeerInfo, id |-> NoPeerID]
    ELSE [err |-> Ok, id |-> maddr.p2p]

\* Network.ConnectToPeer: `connect` is the outcome of host.Connect.
ConnectToPeer(table, maddr, connect) ==
    LET info == AddrInfoFromP2pAddr(maddr)
    IN  IF info.err # Ok THEN [err |-> info.err, table |-> table]
        ELSE IF connect # Ok THEN [err |-> ErrConnect, table |-> table]
        ELSE [err |-> Ok, table |-> AddPeer(table, info.id)]

\* Network.ConnectToPeerByMultiaddr: the peer table is left as it is.
ConnectToPeerByMultiaddr(table, maddr, connect) ==
    LET info == AddrInfoFromP2pAddr(maddr)
    IN  IF info.err # Ok THEN [err |-> info.err, table |-> table]
        ELSE IF connect # Ok THEN [err |-> ErrConnect, table |-> table]
        ELSE [err |-> Ok, table |-> table]

\* updateAddressQuality as it would be if the quality were not held between
\* 0 and 100.
updateAddressQuality_Unclamped(known, address, success, now) ==
    IF address \notin DOMAIN known THEN known
    ELSE IF success
    THEN [known EXCEPT ![address].success = @ + 1,
                       ![address].quality = @ + 10,
                       ![address].lastSeen = now]
    ELSE [known EXCEPT ![address].quality = @ - 5,
                       ![address].lastSeen = now]

\* updateAddressQuality.
updateAddressQuality(known, address, success, now) ==
    IF address \notin DOMAIN known THEN known
    ELSE IF success
    THEN [known EXCEPT ![address].success = @ + 1,
                       ![address].quality = IF @ + 10 > 100 THEN 100 ELSE @ + 10,
                       ![address].lastSeen = now]
    ELSE [known EXCEPT ![address].quality = IF @ - 5 < 0 THEN 0 ELSE @ - 5,
                       ![address].lastSeen = now]

\* The first step of attemptConnection: Attempts++ on the entry, if there is
\* one.
countAttempt(known, address) ==
    IF address \notin DOMAIN known THEN known
    ELSE [known EXCEPT ![address].attempts = @ + 1]

\* The rest of attemptConnection: the address is parsed and dialed, and the
\* outcome of the dial is written to the entry.
finishAttempt(table, known, address, connect, now) ==
    LET m == parseAddress(address)
        r == ConnectToPeerByMultiaddr(table, m.maddr, connect)
    IN  IF m.err # Ok THEN [connected |-> FALSE, table |-> table, known |-> known]
        ELSE [connected |-> r.err = Ok, table |-> r.table,
              known |-> updateAddressQuality(known, address, r.err = Ok, now)]

\* attemptConnection.
attemptConnection(table, known, address, connect, now) ==
    finishAttempt(table, countAttempt(known, address), address, connect, now)

\* getCandidateAddresses: the choices of `count` addresses among those of
\* sufficient quality (IsConnected answers false for every address).
getCandidateAddresses(table, known, count) ==
    LET eligible == {a \in DOMAIN known :
                        /\ ~IsConnected(table, a)
                        /\ known[a].quality >= MinCandidateQuality}
        k == IF Cardinality(eligible) < count THEN Cardinality(eligible) ELSE count
    IN  {c \in SUBSET eligible : Cardinality(c) = k}

\* The loop of discoverAndConnect over the candidates.
RECURSIVE attemptAll(_, _, _, _, _, _)
attemptAll(table, known, candidates, currentPeers, connect, now) ==
    IF candidates = {} \/ currentPeers >= MaxPeers
    THEN [table |-> table, known |-> known]
    ELSE CHOOSE out \in
             {attemptAll(r.table, r.known, candidates \ {a},
                         IF r.connected THEN currentPeers + 1 ELSE currentPeers,
                         connect, now) :
                 <<a, r>> \in {<<x, attemptConnection(table, known, x, connect, now)>> :
                                 x \in {CHOOSE y \in candidates : TRUE}}} : TRUE

\* discoverAndConnect with the candidates getCandidateAddresses drew.
discoverAndConnect(table, known, candidates, connect, now) ==
    IF GetPeerCount(table) >= MaxPeers \/ MinPeers - GetPeerCount(table) <= 0
    THEN [table |-> table, known |-> known]
    ELSE attemptAll(table, known, candidates, GetPeerCount(table), connect, now)

\* The candidates discoverAndConnect asks for.
Candidates(table, known) ==
    IF MinPeers - GetPeerCount(table) <= 0 THEN {{}}
    ELSE getCandidateAddresses(table, known, (MinPeers - GetPeerCount(table)) * 2)

\* The subsets of k elements of a set.
RECURSIVE SubsetsOfSize(_, _)
SubsetsOfSize(set, k) ==
    IF k = 0 THEN {{}}
    ELSE IF set = {} THEN {}
    ELSE LET x == CHOOSE e \in set : TRUE
         IN  SubsetsOfSize(set \ {x}, k) \cup
                 {s \cup {x} : s \in SubsetsOfSize(set \ {x}, k - 1)}

\* A list of the elements of a set, each once.
RECURSIVE ListOf(_)
ListOf(set) ==
    IF set = {} THEN <<>>
    ELSE LET x == CHOOSE e \in set : TRUE IN <<x>> \o ListOf(set \ {x})

\* getRandomAddresses as it would be if it shared every address it knows.
getRandomAddresses_All(known, count) == {ListOf(DOMAIN known)}

\* getRandomAddresses: the lists it may return, which hold the addresses of
\* sufficient quality, or `count` of them when there are more (the order
\* the shuffle gives them is not followed).
getRandomAddresses(known, count) ==
    LET shared == {a \in DOMAIN known : known[a].quality > MinSharedQuality}
        n == Cardinality(shared)
    IN  IF n <= count THEN {ListOf(shared)}
        ELSE {ListOf(shared \ cut) : cut \in SubsetsOfSize(shared, n - count)}

\* handleAddressMessage as it would be if it took every address of the
\* message for valid.
handleAddressMessage_NoValidation(known, addresses, now) ==
    [a \in DOMAIN known \cup {addresses[i] : i \in DOMAIN addresses} |->
        IF a \in DOMAIN known THEN known[a] ELSE NewAddressInfo(now)]

\* handleAddressMessage: addKnownAddress for every valid address of the
\* message.
handleAddressMessage(known, addresses, now) ==
    LET valid == {addresses[i] : i \in {k \in DOMAIN addresses : isValidAddress(addresses[k])}}
    IN  [a \in DOMAIN known \cup valid |->
            IF a \in DOMAIN known THEN known[a] ELSE NewAddressInfo(now)]

\* Network.SendToPeer with the outcomes of its steps: whether peer.Decode
\* accepts the id, and what NewStream and Write do.  The peer table is not
\* looked at.
SendToPeerVia(n, p, type, data, decodes, stream) ==
    IF ~decodes THEN [err |-> ErrPeerID, transport |-> FALSE, sent |-> {}]
    ELSE IF stream # Ok THEN [err |-> stream, transport |-> TRUE, sent |-> {}]
    ELSE [err |-> Ok, transport |-> TRUE,
          sent |-> IF p \in Nodes THEN SendToPeer(n, p, type, data) ELSE {}]

\* Network.Broadcast as it would be if one failed send kept the message from
\* every peer.
BroadcastVia_AllOrNothing(n, table, failed, type, data) ==
    [err |-> Ok, attempted |-> table,
     sent |-> IF failed # {} THEN {}
              ELSE UNION {SendToPeer(n, p, type, data) : p \in table \cap Nodes}]

\* Network.Broadcast: one goroutine per peer of the table sends the
\* message; the sends to the peers in `failed` fail and are logged.
BroadcastVia(n, table, failed, type, data) ==
    [err |-> Ok, attempted |-> table,
     sent |-> UNION {SendToPeer(n, p, type, data) : p \in (table \cap Nodes) \ failed}]

\* Engine.produceBlock on node n with peer table `table`.
produceBlockVia(n, c, table, failed, pending, now, io) ==
    LET block == NewBlockBy(ValidatorOf(n), c.mem, pending, now)
        r == AddBlock(c.mem, c.disk, block, io)
        b == BroadcastVia(n, table, failed, MsgTypeBlock, block)
    IN  IF r.err # Ok
        THEN [err |-> r.err, chain |-> [mem |-> r.s, disk |-> r.disk],
              block |-> block,
              broadcast |-> [err |-> Ok, attempted |-> {}, sent |-> {}]]
        ELSE [err |-> Ok, chain |-> [mem |-> r.s, disk |-> r.disk],
              block |-> block, broadcast |-> b]

\* boot_nodes of the configuration of node n.
BootNodesOf(n) == IF n = "N1" THEN {} ELSE {"N1"}

(***************************************************************************)
(* pkg/consensus: the life of the Engine.  `config` is is_validator of the *)
(* node's configuration; `cancelled` is whether Engine.ctx, made once by   *)
(* NewEngine, is done; `production` and `sync` count the goroutines of     *)
(* blockProductionLoop and of syncLoop that have not returned.             *)
(***************************************************************************)
ErrRunning == "consensus engine already running"

NoEngine ==
    [made |-> FALSE, config |-> FALSE, isValidator |-> FALSE,
     isRunning |-> FALSE, cancelled |-> FALSE, production |-> 0, sync |-> 0,
     started |-> 0]

\* NewEngine, called by runNode with what the configuration holds.
NewEngine(config) ==
    [made |-> TRUE, config |-> config, isValidator |-> TRUE,
     isRunning |-> FALSE, cancelled |-> FALSE, production |-> 0, sync |-> 0,
     started |-> 0]

\* Engine.Start.
EngineStart(e) ==
    IF e.isRunning THEN [err |-> ErrRunning, engine |-> e]
    ELSE [err |-> Ok,
          engine |-> [e EXCEPT !.isRunning = TRUE,
                               !.production = IF e.isValidator THEN @ + 1 ELSE @,
                               !.sync = @ + 1,
                               !.started = @ + 1]]

\* Engine.Stop.
EngineStop(e) ==
    IF ~e.isRunning THEN [err |-> Ok, engine |-> e]
    ELSE [err |-> Ok, engine |-> [e EXCEPT !.cancelled = TRUE, !.isRunning = FALSE]]

\* Engine.SetValidator.
SetValidator(e, isValidator) == [e EXCEPT !.isValidator = isValidator]

(***************************************************************************)
(* State.  blocks, accounts, heap, txPool, lastBlock and height are the    *)
(* fields of the Blockchain struct of the running process (with the heap   *)
(* cells its account pointers refer to); disk is the data directory;       *)
(* faults counts the file writes that have failed so far.  last describes  *)
(* the most recent call: its name, the error it returned, the transaction  *)
(* it was given, and the memory and data directory it started from.  prev  *)
(* describes the call before it when both were AddTransaction calls and    *)
(* the earlier one admitted its transaction.                               *)
(***************************************************************************)
(* Goroutines that call into one node's chain engine at once.  bc.mu is    *)
(* the sync.RWMutex of the Blockchain: AddBlock and AddTransaction hold    *)
(* its exclusive lock from their first statement to their return; GetHeight,*)
(* GetLastBlock and GetPendingTransactions hold the shared lock for one    *)
(* read; GetAccount takes no lock, and handleGetBalance reads the fields   *)
(* of the struct it returns after the call.  Every step below is one       *)
(* memory access, or a run of statements made while holding the exclusive  *)
(* lock that no other goroutine's step can tell apart from one.            *)
(***************************************************************************)
Producer == "producer"

Caller == "caller"

Submitter == "submitter"

Reader == "reader"

Writers == {Producer, Caller}

Goroutines == Writers \cup {Submitter, Reader}

Unlocked == "unlocked"

Idle == [pc |-> "idle"]

\* The cell a GetAccount call of the RPC handler allocates for an address
\* that has no account.
FreshRead == "new(read)"

\* The number of memory writes applyTransaction makes for tx.
ApplySteps(tx) ==
    IF tx.type = TxTypeTransfer THEN 3
    ELSE IF tx.type = TxTypePatchSubmit THEN 2
    ELSE 1

\* applyTransfer, one assignment at a time: the balance test and the debit,
\* the nonce, and the credit with the two map stores.
applyTransferStep(s, tx, j) ==
    LET fromAccount == GetAccountRef(s, tx.from, FreshFrom)
        toAccount == GetAccountRef(s, tx.to, FreshTo)
        h0 == Alloc(Alloc(s.heap, fromAccount, tx.from), toAccount, tx.to)
    IN  IF j = 1
        THEN IF h0[fromAccount].balance < tx.amount
             THEN [err |-> ErrBalance, s |-> s]
             ELSE [err |-> Ok,
                   s |-> [s EXCEPT !.heap =
                             [h0 EXCEPT ![fromAccount].balance = @ - tx.amount]]]
        ELSE IF j = 2
        THEN [err |-> Ok,
              s |-> [s EXCEPT !.heap = [h0 EXCEPT ![fromAccount].nonce = @ + 1]]]
        ELSE [err |-> Ok,
              s |-> Normalize(
                        [s EXCEPT !.heap = [h0 EXCEPT ![toAccount].balance =
                                                          @ + tx.amount],
                                  !.accounts = Put(Put(s.accounts, tx.from, fromAccount),
                                                   tx.to, toAccount)])]

\* applyPatchSubmit, one assignment at a time: the reward, and the nonce
\* with the map store.
applyPatchSubmitStep(s, tx, j) ==
    LET account == GetAccountRef(s, tx.from, FreshFrom)
        h0 == Alloc(s.heap, account, tx.from)
    IN  IF j = 1
        THEN IF ~tx.patchSet
             THEN [err |-> ErrPatchSet, s |-> s]
             ELSE [err |-> Ok,
                   s |-> [s EXCEPT !.heap = [h0 EXCEPT ![account].balance =
                                                         @ + DefaultInitialReward]]]
        ELSE [err |-> Ok,
              s |-> Normalize(
                        [s EXCEPT !.heap = [h0 EXCEPT ![account].nonce = @ + 1],
                                  !.accounts = Put(s.accounts, tx.from, account)])]

applyTransactionStep(s, tx, j) ==
    IF tx.type = TxTypeTransfer THEN applyTransferStep(s, tx, j)
    ELSE IF tx.type = TxTypePatchSubmit THEN applyPatchSubmitStep(s, tx, j)
    ELSE [err |-> ErrUnknownType, s |-> s]

\* bc.mu.Lock() as it would be if it never waited.
CanLock_NeverWaits(m) == TRUE

\* bc.mu.Lock() returns only while no goroutine holds the lock.
CanLock(m) == m = Unlocked

\* bc.mu.RLock() returns only while no goroutine holds the exclusive lock.
CanRLock(m) == m = Unlocked

\* The transaction lists of the blocks handed to AddBlock by the caller:
\* none, one transfer, a transfer and a patch_submit, a transfer the sender
\* cannot pay, and a transfer twice, which the sender can pay only once.
ConcTxLists ==
    { <<>>,
      <<WithHash(TransferA)>>,
      <<WithHash(TransferA), WithHash(Tx(TxTypePatchSubmit, "G1", "G1", 0, TRUE, TRUE))>>,
      <<WithHash(Tx(TxTypeTransfer, "B", "G1", 300, FALSE, TRUE))>>,
      <<WithHash(TransferA), WithHash(TransferA)>> }

\* The blocks handed to AddBlock: well formed for chain s, with one of the
\* transaction lists above.
ConcBlocks(s) ==
    {b \in BlockInputs(s) : /\ b.txs \in ConcTxLists
                            /\ b.header.height = s.height + 1
                            /\ b.header.prevHash = s.lastBlock.header.hash
                            /\ b.header.hash = BlockCalculateHash(b)}

\* What callers hand to AddTransaction while blocks are being added.
ConcSubmitInputs == {WithHash(TransferA)}

\* What get_balance would answer for every address from chain s.
Observed(s) ==
    [a \in Addresses |-> [balance |-> GetAccount(s, a).balance,
                          nonce |-> GetAccount(s, a).nonce]]


(***************************************************************************)
(* cmd/node: the life of the node process on one data directory.  runNode  *)
(* loads or generates the key pair, builds the network (with its peer      *)
(* discovery) and the consensus engine, each with a context of its own,    *)
(* starts their loops and waits for the shutdown signal; Node.stop then    *)
(* stops the consensus engine and the network, runNode returns and the     *)
(* process ends.  A private key is kept by the name of the key it spells.  *)
(***************************************************************************)
NoKey == ""

\* The keys crypto.GenerateKeyPair may draw.
Keys == {"K1", "K2"}

\* The private_key of the configuration file: none, or a key.
ConfigKeys == {NoKey, "KC"}

\* PrivateKeyToHex and PrivateKeyFromHex: the hex string of a key spells the
\* key.
PrivateKeyToHex(key) == [hex |-> key]

PrivateKeyFromHex(str) == str.hex

\* loadOrGenerateKeyPair: the configured key if there is one, else a key
\* pair just generated (`generated`), written to node.key.
loadOrGenerateKeyPair(privateKey, keyFile, generated) ==
    IF privateKey # NoKey
    THEN [keyPair |-> PrivateKeyFromHex(PrivateKeyToHex(privateKey)), keyFile |-> keyFile]
    ELSE [keyPair |-> generated, keyFile |-> PrivateKeyToHex(generated)]

\* The validator address derived from a key pair.
GetAddress(keyPair) == [of |-> keyPair]

\* The contexts the loops select on: the engine's (cancelled by
\* Engine.Stop), the network's (cancelled by Network.Stop) and the peer
\* discovery's (cancelled by PeerDiscovery.Stop).
EngineCtx == "Engine.ctx"

NetworkCtx == "Network.ctx"

DiscoveryCtx == "PeerDiscovery.ctx"

Contexts == {EngineCtx, NetworkCtx, DiscoveryCtx}

\* The periodic loops of a node, and the context each selects on.
EngineLoops == {"blockProductionLoop", "syncLoop"}

DiscoveryLoops == {"discoveryLoop", "addressExchangeLoop", "connectionMaintenanceLoop"}

Loops == EngineLoops \cup DiscoveryLoops

CtxOf(loop) == IF loop \in EngineLoops THEN EngineCtx ELSE DiscoveryCtx

\* Engine.Stop, then Network.Stop: the contexts cancelled by Node.stop.
StopCancels(ctx) == [c \in Contexts |-> ctx[c] \/ c \in {EngineCtx, NetworkCtx}]

\* No process is running on the data directory.
NoProcess ==
    [proc |-> "none", keyPair |-> NoKey,
     loops |-> [l \in Loops |-> "none"],
     ctx |-> [c \in Contexts |-> FALSE]]


(***************************************************************************)
VARIABLES blocks, accounts, heap, txPool, lastBlock, height, disk, faults,
          last, prev

\* The network of nodes: each node's chain engine state and data directory,
\* and the messages sent and not yet received.
VARIABLES chains, net

\* The lock of the Blockchain (the goroutine that holds it exclusively, or
\* none), the position and the local variables of every goroutine that calls
\* into the chain engine, and what get_balance answered for every address
\* when the last call that changed the chain returned without error.
VARIABLES mu, goroutines, committed

\* The node process on the data directory (whether it runs, its key pair,
\* its loops and their contexts), the private_key of its configuration, the
\* node.key file, the key of the first start, and the number of starts.
VARIABLES process, privateKey, keyFile, firstKey, starts

\* The live peer table (Network.peers) and the known addresses
\* (PeerDiscovery.knownAddrs, each with its quality) of every node, and the
\* boot nodes of its configuration that it has not dialed yet.
VARIABLES peers, knownAddrs, bootNodes

\* The consensus engine of a node.
VARIABLES engine

\* The wall clock, in hours, and the place of the discovery loop of a node
\* inside discoverAndConnect.
VARIABLES clock, dialing

\* The goroutines that take the locks of the node, each with the calls its
\* operation has still to make and the locks it holds, and the pairs of
\* locks that were held at once, in the order they were acquired.
VARIABLES lockTasks, lockOrders

vars == <<blocks, accounts, heap, txPool, lastBlock, height, disk, faults,
          last, prev, chains, net, mu, goroutines, committed,
          process, privateKey, keyFile, firstKey, starts,
          peers, knownAddrs, bootNodes, engine,
          clock, dialing, lockTasks, lockOrders>>

netVars == <<chains, net>>

concVars == <<mu, goroutines, committed>>

lifeVars == <<process, privateKey, keyFile, firstKey, starts>>

p2pVars == <<peers, knownAddrs, bootNodes>>

engineVars == <<engine>>

bookVars == <<clock, dialing>>

lockVars == <<lockTasks, lockOrders>>

nodeVars == <<blocks, accounts, heap, txPool, lastBlock, height, disk, faults,
              prev>>

Mem ==
    [blocks |-> blocks, accounts |-> accounts, heap |-> heap,
     txPool |-> txPool, lastBlock |-> lastBlock, height |-> height]

SetMem(s) ==
    /\ blocks' = s.blocks
    /\ accounts' = s.accounts
    /\ heap' = s.heap
    /\ txPool' = s.txPool
    /\ lastBlock' = s.lastBlock
    /\ height' = s.height

\* The fields of the Blockchain struct in an initial state.
SetMemInit(s) ==
    /\ blocks = s.blocks
    /\ accounts = s.accounts
    /\ heap = s.heap
    /\ txPool = s.txPool
    /\ lastBlock = s.lastBlock
    /\ height = s.height

\* The number of state changes applied so far to the accounts in memory.
RECURSIVE SumNonces(_, _)
SumNonces(h, cells) ==
    IF cells = {} THEN 0
    ELSE LET c == CHOOSE x \in cells : TRUE
         IN  h[c].nonce + SumNonces(h, cells \ {c})

\* What the file system may do to the next saveToDisk.
IoChoices == IF faults < MaxFaults THEN IoOutcomes ELSE {"ok"}

WriteFailed(err) == err \in {ErrWriteBlocks, ErrWriteAccounts}

Faults(err) == IF WriteFailed(err) THEN faults + 1 ELSE faults

NoCall == [op |-> "none"]

NoTx == [none |-> TRUE]

Call(op, err, tx) ==
    [op |-> op, err |-> err, tx |-> tx, pre |-> Mem, preDisk |-> disk]

Init ==
    LET r == NewBlockchain(FreshDisk, CHOOSE t \in Timestamps : TRUE, "ok")
    IN  /\ blocks = r.s.blocks
        /\ accounts = r.s.accounts
        /\ heap = r.s.heap
        /\ txPool = r.s.txPool
        /\ lastBlock = r.s.lastBlock
        /\ height = r.s.height
        /\ disk = r.disk
        /\ faults = 0
        /\ last = NoCall
        /\ prev = NoCall
        /\ chains = [n \in Nodes |-> NodeChain(n)]
        /\ net = {}
        /\ mu = Unlocked
        /\ goroutines = [g \in Goroutines |-> Idle]
        /\ committed = Observed(Mem)
        /\ process = NoProcess
        /\ privateKey = NoKey
        /\ keyFile = NoField
        /\ firstKey = NoKey
        /\ starts = 0
        /\ peers = [n \in Nodes |-> EmptyTable]
        /\ knownAddrs = [n \in Nodes |-> SeedAddrs]
        /\ bootNodes = [n \in Nodes |-> BootNodesOf(n)]
        /\ engine = NoEngine
        /\ clock = 0
        /\ dialing = NoDial
        /\ lockTasks = EmptyBag
        /\ lockOrders = {}

(***************************************************************************)
(* Actions: one per call into the chain engine, one per production tick,   *)
(* and one for a restart of the process.                                   *)
(***************************************************************************)
AddTransactionCall ==
    /\ \E tx \in SubmitInputs :
        LET r == AddTransaction(Mem, tx)
        IN  /\ Cardinality(DOMAIN r.s.txPool) <= MaxPool
            /\ SetMem(r.s)
            /\ last' = Call("AddTransaction", r.err, tx)
            /\ prev' = IF last.op = "AddTransaction" /\ last.err = Ok
                       THEN [op |-> last.op, err |-> last.err, tx |-> last.tx,
                             poolSize |-> Cardinality(DOMAIN last.pre.txPool)]
                       ELSE NoCall
    /\ UNCHANGED <<disk, faults>>
    /\ UNCHANGED netVars
    /\ UNCHANGED concVars
    /\ UNCHANGED lifeVars
    /\ UNCHANGED p2pVars
    /\ UNCHANGED engineVars
    /\ UNCHANGED bookVars
    /\ UNCHANGED lockVars

AddBlockCall ==
    /\ height < MaxHeight
    /\ SumNonces(heap, DOMAIN heap) < MaxNonce
    /\ \E block \in BlockInputs(Mem), io \in IoChoices :
        LET r == AddBlock(Mem, disk, block, io)
        IN  /\ SetMem(r.s)
            /\ disk' = r.disk
            /\ faults' = Faults(r.err)
            /\ last' = Call("AddBlock", r.err, NoTx)
    /\ prev' = NoCall
    /\ UNCHANGED netVars
    /\ UNCHANGED concVars
    /\ UNCHANGED lifeVars
    /\ UNCHANGED p2pVars
    /\ UNCHANGED engineVars
    /\ UNCHANGED bookVars
    /\ UNCHANGED lockVars

ProduceBlockTick ==
    /\ height < MaxHeight
    /\ \E pending \in PendingOrders(Mem), now \in Timestamps, io \in IoChoices :
        LET r == produceBlock(Mem, disk, pending, now, io)
        IN  /\ SetMem(r.s)
            /\ disk' = r.disk
            /\ faults' = Faults(r.err)
            /\ last' = Call("produceBlock", r.err, NoTx)
    /\ prev' = NoCall
    /\ UNCHANGED netVars
    /\ UNCHANGED concVars
    /\ UNCHANGED lifeVars
    /\ UNCHANGED p2pVars
    /\ UNCHANGED engineVars
    /\ UNCHANGED bookVars
    /\ UNCHANGED lockVars

\* The process ends (the mempool and every in-memory change are lost) and
\* the node is started again on the same data directory.  The start is one
\* whose own writes succeed: a start that fails leaves no node running.
Restart ==
    /\ LET r == NewBlockchain(disk, CHOOSE t \in Timestamps : TRUE, "ok")
       IN  /\ r.err = Ok
           /\ SetMem(r.s)
           /\ disk' = r.disk
           /\ last' = Call("NewBlockchain", r.err, NoTx)
    /\ prev' = NoCall
    /\ UNCHANGED faults
    /\ UNCHANGED netVars
    /\ UNCHANGED concVars
    /\ UNCHANGED lifeVars
    /\ UNCHANGED p2pVars
    /\ UNCHANGED engineVars
    /\ UNCHANGED bookVars
    /\ UNCHANGED lockVars

Next ==
    \/ AddTransactionCall
    \/ AddBlockCall
    \/ ProduceBlockTick
    \/ Restart

Spec == Init /\ [][Next]_vars

(***************************************************************************)
(* cmd/node: the JSON-RPC endpoint (POST /).  A request is the body the    *)
(* client posted: something json.Decode refuses, or an object with a       *)
(* "method" (a string, or absent) and "params".  An address string is kept *)
(* by what AddressFromString looks at: an optional 0x prefix, the number   *)
(* of characters after it, whether they are hex digits, and the address    *)
(* they spell.                                                             *)
(***************************************************************************)
StatusOK == 200
StatusBadRequest == 400
StatusInternalServerError == 500

AddressLen == 40

\* Strings that carry a hash: the hex digits Hash.String() gives for a hash,
\* and the literal the submit handler answers with.
HashToString(h) == [hex |-> h]

MockTxHash == [literal |-> "0x1234567890abcdef"]

AddressString(addr, prefix, len, hex) ==
    [prefix |-> prefix, len |-> len, hex |-> hex, addr |-> addr]

\* Address.String(): 0x and the 40 hex digits of the address.
AddressToString(addr) == AddressString(addr, TRUE, AddressLen, TRUE)

AddressFromString(str) ==
    IF str.len # AddressLen THEN [err |-> "invalid address length", addr |-> ""]
    ELSE IF ~str.hex THEN [err |-> "invalid hex", addr |-> ""]
    ELSE [err |-> Ok, addr |-> str.addr]

HttpError(text, code) == [status |-> code, body |-> [error |-> text]]

handleGetBalance(s, params) ==
    IF params = NoField \/ params.kind # "object"
    THEN [err |-> "invalid params", response |-> NoField]
    ELSE IF params.address = NoField
    THEN [err |-> "missing address", response |-> NoField]
    ELSE IF AddressFromString(params.address).err # Ok
    THEN [err |-> "invalid address", response |-> NoField]
    ELSE LET account == GetAccount(s, AddressFromString(params.address).addr)
         IN  [err |-> Ok,
              response |-> [balance |-> account.balance, nonce |-> account.nonce]]

handleSubmitTransaction(s, params) ==
    [err |-> Ok, response |-> [tx_hash |-> MockTxHash], s |-> s]

\* The response written, and the chain state the handler leaves.
handleRPC(s, req) ==
    IF ~req.json THEN [resp |-> HttpError("Invalid JSON", StatusBadRequest), s |-> s]
    ELSE IF ~req.hasMethod
    THEN [resp |-> HttpError("Missing method", StatusBadRequest), s |-> s]
    ELSE IF req.method = "get_height"
    THEN [resp |-> [status |-> StatusOK, body |-> [height |-> s.height]], s |-> s]
    ELSE IF req.method = "get_balance"
    THEN LET r == handleGetBalance(s, req.params)
         IN  IF r.err # Ok
             THEN [resp |-> HttpError(r.err, StatusInternalServerError), s |-> s]
             ELSE [resp |-> [status |-> StatusOK, body |-> r.response], s |-> s]
    ELSE IF req.method = "submit_transaction"
    THEN LET r == handleSubmitTransaction(s, req.params)
         IN  IF r.err # Ok
             THEN [resp |-> HttpError(r.err, StatusInternalServerError), s |-> r.s]
             ELSE [resp |-> [status |-> StatusOK, body |-> r.response], s |-> r.s]
    ELSE [resp |-> HttpError("Unknown method", StatusBadRequest), s |-> s]

Request(method, params) ==
    [json |-> TRUE, hasMethod |-> TRUE, method |-> method, params |-> params]

\* A JSON object whose "method" is absent or is no string.
NoMethodRequest ==
    [json |-> TRUE, hasMethod |-> FALSE, method |-> "", params |-> NoField]

BalanceParams(str) == [kind |-> "object", address |-> str]

\* The bodies clients post: what no JSON decoder reads, an object without a
\* method, an unknown method, get_height, get_balance with a well-formed
\* address (of an account or of none), without params, without an address,
\* with an address too short or not hex, and submit_transaction with a
\* transaction the engine would admit and with one that overdraws its sender.
RpcRequests ==
    { [json |-> FALSE], NoMethodRequest, Request("get_block", NoField),
      Request("get_height", NoField),
      Request("get_balance", NoField),
      Request("get_balance", [kind |-> "object", address |-> NoField]),
      Request("get_balance", BalanceParams(AddressString("G1", TRUE, 39, TRUE))),
      Request("get_balance", BalanceParams(AddressString("G1", TRUE, AddressLen, FALSE))) }
    \cup {Request("get_balance", BalanceParams(AddressToString(a))) : a \in Addresses}
    \cup {Request("submit_transaction", [kind |-> "object", transaction |-> tx])
             : tx \in {WithHash(TransferA),
                       WithHash(Tx(TxTypeTransfer, "B", "G1", 300, FALSE, TRUE))}}

RpcCall(req, resp) ==
    [op |-> "handleRPC", err |-> Ok, tx |-> NoTx, pre |-> Mem, preDisk |-> disk,
     req |-> req, resp |-> resp]

HandleRPC ==
    /\ \E req \in RpcRequests :
        LET r == handleRPC(Mem, req)
        IN  /\ SetMem(r.s)
            /\ last' = RpcCall(req, r.resp)
    /\ prev' = NoCall
    /\ UNCHANGED <<disk, faults>>
    /\ UNCHANGED netVars
    /\ UNCHANGED concVars
    /\ UNCHANGED lifeVars
    /\ UNCHANGED p2pVars
    /\ UNCHANGED engineVars
    /\ UNCHANGED bookVars
    /\ UNCHANGED lockVars

\* A node whose file system never fails, serving RPC calls while blocks and
\* transactions reach its chain engine.
RpcInit ==
    LET r == NewBlockchain(FreshDisk, CHOOSE t \in Timestamps : TRUE, "ok")
    IN  /\ SetMemInit(r.s)
        /\ disk = r.disk
        /\ faults = MaxFaults
        /\ last = NoCall
        /\ prev = NoCall
        /\ chains = [n \in Nodes |-> NodeChain(n)]
        /\ net = {}
        /\ mu = Unlocked
        /\ goroutines = [g \in Goroutines |-> Idle]
        /\ committed = Observed(Mem)
        /\ process = NoProcess
        /\ privateKey = NoKey
        /\ keyFile = NoField
        /\ firstKey = NoKey
        /\ starts = 0
        /\ peers = [n \in Nodes |-> EmptyTable]
        /\ knownAddrs = [n \in Nodes |-> SeedAddrs]
        /\ bootNodes = [n \in Nodes |-> BootNodesOf(n)]
        /\ engine = NoEngine
        /\ clock = 0
        /\ dialing = NoDial
        /\ lockTasks = EmptyBag
        /\ lockOrders = {}

RpcNext ==
    \/ HandleRPC
    \/ AddTransactionCall
    \/ AddBlockCall
    \/ ProduceBlockTick

RpcSpec == RpcInit /\ [][RpcNext]_vars

(***************************************************************************)
(* The network of nodes.  `last` records the engine call that ran last:    *)
(* the node and, for a message handler, the message it was given, the      *)
(* node's chain before the call, and the messages the call sent.  The      *)
(* messages in flight are kept as a set, delivered in any order.           *)
(***************************************************************************)
\* What clients hand to Engine.SubmitTransaction on the node that holds the
\* sender's funds: the transfer, and a patch_submit.
EngineSubmitInputs ==
    {WithHash(TransferA), WithHash(Tx(TxTypePatchSubmit, "G1", "G1", 0, TRUE, TRUE))}

SubmitNodes == {"N1"}

\* The node that asks a peer for blocks, and the from_height it asks for.
RequestNodes == {"N2"}

FromHeights == {0}

\* An engine call that is no message handler.
Tick(op, n, err) == [op |-> op, node |-> n, err |-> err]

EngineCall(op, n, err, msg, sent) ==
    [op |-> op, node |-> n, err |-> err, msg |-> msg, pre |-> chains[n].mem,
     sent |-> sent]

Send(msgs) ==
    /\ Cardinality(net \cup msgs) <= MaxInFlight
    /\ net' = net \cup msgs

\* A message in flight reaches its receiver, whose handleStream runs it.
Deliver ==
    /\ \E msg \in net :
        LET r == handleStream(msg.to, chains[msg.to], msg)
        IN  /\ Cardinality((net \ {msg}) \cup r.sent) <= MaxInFlight
            /\ net' = (net \ {msg}) \cup r.sent
            /\ chains' = [chains EXCEPT ![msg.to] = r.chain]
            /\ last' = EngineCall(HandlerOf(msg.type), msg.to, r.err, msg, r.sent)
    /\ UNCHANGED nodeVars
    /\ UNCHANGED concVars
    /\ UNCHANGED lifeVars
    /\ UNCHANGED p2pVars
    /\ UNCHANGED engineVars
    /\ UNCHANGED bookVars
    /\ UNCHANGED lockVars

\* The production ticker of node n fires.
NodeProduceTick(n) ==
    /\ chains[n].mem.height < MaxHeight
    /\ \E pending \in PendingOrders(chains[n].mem), now \in Timestamps :
        LET r == produceBlockAt(n, chains[n], pending, now, "ok")
        IN  /\ Send(r.sent)
            /\ chains' = [chains EXCEPT ![n] = r.chain]
            /\ last' = Tick("produceBlock", n, r.err)
    /\ UNCHANGED nodeVars
    /\ UNCHANGED concVars
    /\ UNCHANGED lifeVars
    /\ UNCHANGED p2pVars
    /\ UNCHANGED engineVars
    /\ UNCHANGED bookVars
    /\ UNCHANGED lockVars

\* A client hands a transaction to the engine of node n.
NodeSubmitTransaction(n) ==
    /\ \E tx \in EngineSubmitInputs :
        LET r == SubmitTransaction(n, chains[n], tx)
        IN  /\ Cardinality(DOMAIN r.chain.mem.txPool) <= MaxPool
            /\ Send(r.sent)
            /\ chains' = [chains EXCEPT ![n] = r.chain]
            /\ last' = Tick("SubmitTransaction", n, r.err)
    /\ UNCHANGED nodeVars
    /\ UNCHANGED concVars
    /\ UNCHANGED lifeVars
    /\ UNCHANGED p2pVars
    /\ UNCHANGED engineVars
    /\ UNCHANGED bookVars
    /\ UNCHANGED lockVars

\* The sync ticker of node n fires.
NodeSyncTick(n) ==
    /\ \E first \in Peers(n) :
        /\ Send(syncWithPeers(n, first))
        /\ last' = Tick("syncWithPeers", n, Ok)
    /\ UNCHANGED chains
    /\ UNCHANGED nodeVars
    /\ UNCHANGED concVars
    /\ UNCHANGED lifeVars
    /\ UNCHANGED p2pVars
    /\ UNCHANGED engineVars
    /\ UNCHANGED bookVars
    /\ UNCHANGED lockVars

\* Node n asks a peer for the blocks above a height.
NodeRequestBlocks(n) ==
    /\ \E p \in Peers(n), h \in FromHeights :
        /\ Send(RequestBlocks(n, p, h))
        /\ last' = Tick("RequestBlocks", n, Ok)
    /\ UNCHANGED chains
    /\ UNCHANGED nodeVars
    /\ UNCHANGED concVars
    /\ UNCHANGED lifeVars
    /\ UNCHANGED p2pVars
    /\ UNCHANGED engineVars
    /\ UNCHANGED bookVars
    /\ UNCHANGED lockVars

NetNext ==
    \/ Deliver
    \/ \E n \in Nodes : NodeProduceTick(n)
    \/ \E n \in SubmitNodes : NodeSubmitTransaction(n)
    \/ \E n \in Nodes : NodeSyncTick(n)
    \/ \E n \in RequestNodes : NodeRequestBlocks(n)

NetSpec == Init /\ [][NetNext]_vars

\* The tickers of every node keep firing and the network keeps delivering.
NetFairSpec ==
    /\ Init
    /\ [][NetNext]_vars
    /\ WF_vars(Deliver)
    /\ \A n \in Nodes : WF_vars(NodeProduceTick(n))
    /\ \A n \in Nodes : WF_vars(NodeSyncTick(n))

(***************************************************************************)
(* Actions of the goroutines.                                               *)
(***************************************************************************)
\* What a finished call leaves in `last`.
Finished(op, g, c, err) ==
    [op |-> op, goroutine |-> g, err |-> err, call |-> c, post |-> Mem',
     postDisk |-> disk']

\* The values a balance query that is under way may answer, after a call
\* of AddBlock or AddTransaction returned `err` and left chain s.
Legal(r, err, s) ==
    IF r.pc # "idle" /\ err = Ok
    THEN [r EXCEPT !.legal = @ \cup {Observed(s)[r.addr]}]
    ELSE r

\* The return of a call that holds the exclusive lock (the deferred
\* bc.mu.Unlock()).
Return(op, g, err) ==
    /\ mu' = Unlocked
    /\ goroutines' = [goroutines EXCEPT ![g] = Idle,
                                        ![Reader] = Legal(@, err, Mem')]
    /\ committed' = IF err = Ok THEN Observed(Mem') ELSE committed
    /\ last' = Finished(op, g, goroutines[g], err)

\* Another goroutine calls AddBlock with a block.
CallAddBlock ==
    /\ goroutines[Caller].pc = "idle"
    /\ height < MaxConcHeight
    /\ \E block \in ConcBlocks(Mem) :
        goroutines' = [goroutines EXCEPT ![Caller] =
                          [pc |-> "lock", block |-> block, sawHeight |-> height]]
    /\ UNCHANGED <<blocks, accounts, heap, txPool, lastBlock, height, disk, faults,
                   last, prev, mu, committed>>
    /\ UNCHANGED netVars
    /\ UNCHANGED lifeVars
    /\ UNCHANGED p2pVars
    /\ UNCHANGED engineVars
    /\ UNCHANGED bookVars
    /\ UNCHANGED lockVars

\* produceBlock: GetPendingTransactions.
ProducerReadPending ==
    /\ goroutines[Producer].pc = "idle"
    /\ height < MaxConcHeight
    /\ CanRLock(mu)
    /\ \E pending \in PendingOrders(Mem) :
        goroutines' = [goroutines EXCEPT ![Producer] =
                          [pc |-> "readLast", pool |-> txPool, pending |-> pending]]
    /\ UNCHANGED <<blocks, accounts, heap, txPool, lastBlock, height, disk, faults,
                   last, prev, mu, committed>>
    /\ UNCHANGED netVars
    /\ UNCHANGED lifeVars
    /\ UNCHANGED p2pVars
    /\ UNCHANGED engineVars
    /\ UNCHANGED bookVars
    /\ UNCHANGED lockVars

\* produceBlock: GetLastBlock.
ProducerReadLast ==
    /\ goroutines[Producer].pc = "readLast"
    /\ CanRLock(mu)
    /\ goroutines' = [goroutines EXCEPT ![Producer] =
                         [pc |-> "readHeight", pool |-> @.pool, pending |-> @.pending,
                          lastBlock |-> lastBlock]]
    /\ UNCHANGED <<blocks, accounts, heap, txPool, lastBlock, height, disk, faults,
                   last, prev, mu, committed>>
    /\ UNCHANGED netVars
    /\ UNCHANGED lifeVars
    /\ UNCHANGED p2pVars
    /\ UNCHANGED engineVars
    /\ UNCHANGED bookVars
    /\ UNCHANGED lockVars

\* produceBlock: GetHeight, and the block built from the three reads.
ProducerReadHeight ==
    /\ goroutines[Producer].pc = "readHeight"
    /\ CanRLock(mu)
    /\ \E now \in Timestamps :
        LET g == goroutines[Producer]
            read == [txPool |-> g.pool, lastBlock |-> g.lastBlock, height |-> height]
        IN  goroutines' = [goroutines EXCEPT ![Producer] =
                              [pc |-> "lock",
                               block |-> NewBlockBy(Validator, read, g.pending, now),
                               sawHeight |-> height]]
    /\ UNCHANGED <<blocks, accounts, heap, txPool, lastBlock, height, disk, faults,
                   last, prev, mu, committed>>
    /\ UNCHANGED netVars
    /\ UNCHANGED lifeVars
    /\ UNCHANGED p2pVars
    /\ UNCHANGED engineVars
    /\ UNCHANGED bookVars
    /\ UNCHANGED lockVars

\* AddBlock: bc.mu.Lock().
AddBlockLock(g) ==
    /\ goroutines[g].pc = "lock"
    /\ CanLock(mu)
    /\ mu' = g
    /\ goroutines' = [goroutines EXCEPT ![g] =
                         [pc |-> "validate", block |-> @.block,
                          sawHeight |-> @.sawHeight, pre |-> Mem, preDisk |-> disk,
                          i |-> 1, j |-> 1]]
    /\ UNCHANGED <<blocks, accounts, heap, txPool, lastBlock, height, disk, faults,
                   last, prev, committed>>
    /\ UNCHANGED netVars
    /\ UNCHANGED lifeVars
    /\ UNCHANGED p2pVars
    /\ UNCHANGED engineVars
    /\ UNCHANGED bookVars
    /\ UNCHANGED lockVars

\* AddBlock: validateBlock.
AddBlockValidate(g) ==
    /\ goroutines[g].pc = "validate"
    /\ LET err == validateBlock(Mem, goroutines[g].block)
       IN  IF err # Ok
           THEN /\ UNCHANGED <<blocks, accounts, heap, txPool, lastBlock, height, disk>>
                /\ Return("AddBlock", g, err)
           ELSE /\ goroutines' = [goroutines EXCEPT ![g].pc = "apply",
                                                    ![g].block = SetMerkleRoot(@)]
                /\ UNCHANGED <<blocks, accounts, heap, txPool, lastBlock, height,
                               disk, last, mu, committed>>
    /\ UNCHANGED <<faults, prev>>
    /\ UNCHANGED netVars
    /\ UNCHANGED lifeVars
    /\ UNCHANGED p2pVars
    /\ UNCHANGED engineVars
    /\ UNCHANGED bookVars
    /\ UNCHANGED lockVars

\* AddBlock: one assignment of applyTransaction for the next transaction of
\* the block, with the delete from the pool after the last one.
AddBlockApply(g) ==
    /\ goroutines[g].pc = "apply"
    /\ goroutines[g].i <= Len(goroutines[g].block.txs)
    /\ LET c == goroutines[g]
           tx == c.block.txs[c.i]
           r == applyTransactionStep(Mem, tx, c.j)
       IN  IF r.err # Ok
           THEN /\ UNCHANGED <<blocks, accounts, heap, txPool, lastBlock, height, disk>>
                /\ Return("AddBlock", g, r.err)
           ELSE IF c.j < ApplySteps(tx)
           THEN /\ SetMem(r.s)
                /\ goroutines' = [goroutines EXCEPT ![g].j = @ + 1]
                /\ UNCHANGED <<disk, last, mu, committed>>
           ELSE /\ SetMem([r.s EXCEPT !.txPool = Delete(@, tx.hash)])
                /\ goroutines' = [goroutines EXCEPT ![g].i = @ + 1, ![g].j = 1]
                /\ UNCHANGED <<disk, last, mu, committed>>
    /\ UNCHANGED <<faults, prev>>
    /\ UNCHANGED netVars
    /\ UNCHANGED lifeVars
    /\ UNCHANGED p2pVars
    /\ UNCHANGED engineVars
    /\ UNCHANGED bookVars
    /\ UNCHANGED lockVars

\* AddBlock: the block is appended, the chain is saved, the call returns.
AddBlockAppend(g) ==
    /\ goroutines[g].pc = "apply"
    /\ goroutines[g].i > Len(goroutines[g].block.txs)
    /\ LET block == goroutines[g].block
           s2 == [Mem EXCEPT !.blocks = Append(@, block), !.lastBlock = block,
                             !.height = block.header.height]
           sv == saveToDisk(s2, disk, "ok")
       IN  /\ SetMem(s2)
           /\ disk' = sv.disk
           /\ Return("AddBlock", g, sv.err)
    /\ UNCHANGED <<faults, prev>>
    /\ UNCHANGED netVars
    /\ UNCHANGED lifeVars
    /\ UNCHANGED p2pVars
    /\ UNCHANGED engineVars
    /\ UNCHANGED bookVars
    /\ UNCHANGED lockVars

\* A client's transaction is handed to AddTransaction.
CallAddTransaction ==
    /\ goroutines[Submitter].pc = "idle"
    /\ \E tx \in ConcSubmitInputs :
        goroutines' = [goroutines EXCEPT ![Submitter] = [pc |-> "lock", tx |-> tx]]
    /\ UNCHANGED <<blocks, accounts, heap, txPool, lastBlock, height, disk, faults,
                   last, prev, mu, committed>>
    /\ UNCHANGED netVars
    /\ UNCHANGED lifeVars
    /\ UNCHANGED p2pVars
    /\ UNCHANGED engineVars
    /\ UNCHANGED bookVars
    /\ UNCHANGED lockVars

\* AddTransaction: bc.mu.Lock().
AddTransactionLock ==
    /\ goroutines[Submitter].pc = "lock"
    /\ CanLock(mu)
    /\ mu' = Submitter
    /\ goroutines' = [goroutines EXCEPT ![Submitter] =
                         [pc |-> "body", tx |-> @.tx, pre |-> Mem, preDisk |-> disk]]
    /\ UNCHANGED <<blocks, accounts, heap, txPool, lastBlock, height, disk, faults,
                   last, prev, committed>>
    /\ UNCHANGED netVars
    /\ UNCHANGED lifeVars
    /\ UNCHANGED p2pVars
    /\ UNCHANGED engineVars
    /\ UNCHANGED bookVars
    /\ UNCHANGED lockVars

\* AddTransaction: the validation, the hash, the store in the pool, and the
\* return.
AddTransactionBody ==
    /\ goroutines[Submitter].pc = "body"
    /\ LET r == AddTransaction(Mem, goroutines[Submitter].tx)
       IN  /\ Cardinality(DOMAIN r.s.txPool) <= MaxPool
           /\ SetMem(r.s)
           /\ UNCHANGED disk
           /\ Return("AddTransaction", Submitter, r.err)
    /\ UNCHANGED <<faults, prev>>
    /\ UNCHANGED netVars
    /\ UNCHANGED lifeVars
    /\ UNCHANGED p2pVars
    /\ UNCHANGED engineVars
    /\ UNCHANGED bookVars
    /\ UNCHANGED lockVars

\* handleGetBalance: GetAccount returns the pointer the map holds.
ReadAccount ==
    /\ goroutines[Reader].pc = "idle"
    /\ \E addr \in Addresses :
        goroutines' = [goroutines EXCEPT ![Reader] =
                          [pc |-> "readBalance", addr |-> addr,
                           ref |-> GetAccountRef(Mem, addr, FreshRead),
                           legal |-> {committed[addr]}]]
    /\ UNCHANGED <<blocks, accounts, heap, txPool, lastBlock, height, disk, faults,
                   last, prev, mu, committed>>
    /\ UNCHANGED netVars
    /\ UNCHANGED lifeVars
    /\ UNCHANGED p2pVars
    /\ UNCHANGED engineVars
    /\ UNCHANGED bookVars
    /\ UNCHANGED lockVars

\* handleGetBalance: account.Balance is read.
ReadBalance ==
    /\ goroutines[Reader].pc = "readBalance"
    /\ LET c == goroutines[Reader]
       IN  goroutines' = [goroutines EXCEPT ![Reader] =
                             [pc |-> "readNonce", addr |-> c.addr, ref |-> c.ref,
                              legal |-> c.legal,
                              balance |-> IF c.ref \in DOMAIN heap
                                          THEN heap[c.ref].balance ELSE 0]]
    /\ UNCHANGED <<blocks, accounts, heap, txPool, lastBlock, height, disk, faults,
                   last, prev, mu, committed>>
    /\ UNCHANGED netVars
    /\ UNCHANGED lifeVars
    /\ UNCHANGED p2pVars
    /\ UNCHANGED engineVars
    /\ UNCHANGED bookVars
    /\ UNCHANGED lockVars

\* handleGetBalance: account.Nonce is read and the response is written.
ReadNonce ==
    /\ goroutines[Reader].pc = "readNonce"
    /\ LET c == goroutines[Reader]
           response == [balance |-> c.balance,
                        nonce |-> IF c.ref \in DOMAIN heap
                                  THEN heap[c.ref].nonce ELSE 0]
       IN  /\ goroutines' = [goroutines EXCEPT ![Reader] = Idle]
           /\ last' = [op |-> "get_balance", goroutine |-> Reader, err |-> Ok,
                       call |-> c, response |-> response]
    /\ UNCHANGED <<blocks, accounts, heap, txPool, lastBlock, height, disk, faults,
                   prev, mu, committed>>
    /\ UNCHANGED netVars
    /\ UNCHANGED lifeVars
    /\ UNCHANGED p2pVars
    /\ UNCHANGED engineVars
    /\ UNCHANGED bookVars
    /\ UNCHANGED lockVars

ConcNext ==
    \/ CallAddBlock
    \/ ProducerReadPending
    \/ ProducerReadLast
    \/ ProducerReadHeight
    \/ \E g \in Writers : AddBlockLock(g)
    \/ \E g \in Writers : AddBlockValidate(g)
    \/ \E g \in Writers : AddBlockApply(g)
    \/ \E g \in Writers : AddBlockAppend(g)
    \/ CallAddTransaction
    \/ AddTransactionLock
    \/ AddTransactionBody
    \/ ReadAccount
    \/ ReadBalance
    \/ ReadNonce

ConcSpec == Init /\ [][ConcNext]_vars

(***************************************************************************)
(* Actions of the node process.                                            *)
(***************************************************************************)
chainVars == <<blocks, accounts, heap, txPool, lastBlock, height, disk, faults, prev>>

\* runNode up to the wait for the shutdown signal: the configuration is read
\* (the same on every start), the key pair is loaded or
\* generated, NewNetwork, NewPeerDiscovery and NewEngine make their
\* contexts, Network.Start starts the three discovery loops and Engine.Start
\* the production loop and the sync loop.
StartNode ==
    /\ process.proc = "none"
    /\ starts < MaxStarts
    /\ \E generated \in Keys,
          configured \in IF starts = 0 THEN ConfigKeys ELSE {privateKey} :
        LET k == loadOrGenerateKeyPair(configured, keyFile, generated)
        IN  /\ privateKey' = configured
            /\ process' = [proc |-> "running", keyPair |-> k.keyPair,
                           loops |-> [l \in Loops |-> "running"],
                           ctx |-> [c \in Contexts |-> FALSE]]
            /\ keyFile' = k.keyFile
            /\ firstKey' = IF starts = 0 THEN k.keyPair ELSE firstKey
            /\ last' = [op |-> "runNode", address |-> GetAddress(k.keyPair)]
    /\ starts' = starts + 1
    /\ UNCHANGED chainVars
    /\ UNCHANGED p2pVars
    /\ UNCHANGED netVars
    /\ UNCHANGED concVars
    /\ UNCHANGED engineVars
    /\ UNCHANGED bookVars
    /\ UNCHANGED lockVars

\* The ticker of a loop fires and the loop runs one iteration.
LoopIteration(l) ==
    /\ process.loops[l] = "running"
    /\ last' = [op |-> l, afterStop |-> process.proc = "stopped"]
    /\ UNCHANGED lifeVars
    /\ UNCHANGED chainVars
    /\ UNCHANGED p2pVars
    /\ UNCHANGED netVars
    /\ UNCHANGED concVars
    /\ UNCHANGED engineVars
    /\ UNCHANGED bookVars
    /\ UNCHANGED lockVars

\* A loop finds its context done and returns.
LoopReturn(l) ==
    /\ process.loops[l] = "running"
    /\ process.ctx[CtxOf(l)]
    /\ process' = [process EXCEPT !.loops[l] = "returned"]
    /\ last' = [op |-> "return", loop |-> l]
    /\ UNCHANGED <<privateKey, keyFile, firstKey, starts>>
    /\ UNCHANGED chainVars
    /\ UNCHANGED p2pVars
    /\ UNCHANGED netVars
    /\ UNCHANGED concVars
    /\ UNCHANGED engineVars
    /\ UNCHANGED bookVars
    /\ UNCHANGED lockVars

\* The shutdown signal arrives: Node.stop shuts the RPC server down, stops
\* the consensus engine and stops the network.
StopNode ==
    /\ process.proc = "running"
    /\ process' = [process EXCEPT !.proc = "stopped", !.ctx = StopCancels(@)]
    /\ last' = [op |-> "Node.stop"]
    /\ UNCHANGED <<privateKey, keyFile, firstKey, starts>>
    /\ UNCHANGED chainVars
    /\ UNCHANGED p2pVars
    /\ UNCHANGED netVars
    /\ UNCHANGED concVars
    /\ UNCHANGED engineVars
    /\ UNCHANGED bookVars
    /\ UNCHANGED lockVars

\* runNode returns what Node.stop returned and the process ends, and with
\* it every goroutine.
ProcessExit ==
    /\ process.proc = "stopped"
    /\ process' = NoProcess
    /\ last' = [op |-> "exit"]
    /\ UNCHANGED <<privateKey, keyFile, firstKey, starts>>
    /\ UNCHANGED chainVars
    /\ UNCHANGED p2pVars
    /\ UNCHANGED netVars
    /\ UNCHANGED concVars
    /\ UNCHANGED engineVars
    /\ UNCHANGED bookVars
    /\ UNCHANGED lockVars

LifeNext ==
    \/ StartNode
    \/ \E l \in Loops : LoopIteration(l)
    \/ \E l \in Loops : LoopReturn(l)
    \/ StopNode
    \/ ProcessExit

LifeSpec == Init /\ [][LifeNext]_vars

(***************************************************************************)
(* Actions of the peer table and of peer discovery.                        *)
(***************************************************************************)
\* The node that remote peers outside the network reach.
ListeningNodes == {"N1"}

\* The nodes whose discoveryLoop ticker and whose connectionMaintenanceLoop
\* ticker are explored.
DiscoveryNodes == {"N2", "N3"}

MaintenanceNodes == {"N2"}

\* The remote peers that act on a node: the first one, and the next one
\* that is not in its table.
NearRemotes(table) ==
    {RemoteId(1), RemoteId(Cardinality(table \cap Remotes) + 1)} \cap Remotes

\* The addresses cleanupOldAddresses may find older than MaxAddressAge: an
\* address that discoverAndConnect still attempts is seen at every tick,
\* and the others were all seen last at the same attempt.
Aged(table, known) ==
    IF GetPeerCount(table) >= MinPeers THEN DOMAIN known
    ELSE {a \in DOMAIN known : known[a].quality < MinCandidateQuality}

AgedChoices(table, known) == {{}, Aged(table, known)}

\* cleanupOldAddresses.
cleanupOldAddresses(known, aged) ==
    [a \in {x \in DOMAIN known : ~(x \in aged /\ known[x].quality < 20)} |-> known[a]]

\* handleGetAddressMessage.
handleGetAddressMessage(n, msg, addresses) ==
    SendToPeer(n, msg.from, MsgTypeAddr, [addresses |-> addresses])

\* Network.handleStream with the peer table: a stream whose message cannot
\* be read or decoded is dropped; otherwise the remote peer enters the
\* table and the handler of the message's type runs.
handleStreamAt(n, table, known, c, msg, decodes, addresses, now) ==
    IF ~decodes
    THEN [err |-> "unmarshal", table |-> table, known |-> known, chain |-> c,
          sent |-> {}]
    ELSE IF msg.type = MsgTypeGetAddr
    THEN [err |-> Ok, table |-> AddPeer(table, msg.from), known |-> known,
          chain |-> c,
          sent |-> handleGetAddressMessage(n, msg, addresses)]
    ELSE IF msg.type = MsgTypeAddr
    THEN [err |-> Ok, table |-> AddPeer(table, msg.from),
          known |-> IF msg.data = NoField THEN known
                    ELSE handleAddressMessage(known, msg.data.addresses, now),
          chain |-> c, sent |-> {}]
    ELSE LET r == handleStream(n, c, msg)
         IN  [err |-> r.err, table |-> AddPeer(table, msg.from),
              known |-> known, chain |-> r.chain, sent |-> r.sent]

PeerCall(op, n, err) ==
    [op |-> op, node |-> n, err |-> err, pre |-> peers[n]]

\* A remote peer outside the network opens a stream to node n.
InboundStream(n) ==
    /\ \E r \in NearRemotes(peers[n]), decodes \in BOOLEAN,
          addresses \in getRandomAddresses(knownAddrs[n], AddressExchangeCount) :
        LET msg == Message(MsgTypeGetAddr, NoField, r, n)
            h == handleStreamAt(n, peers[n], knownAddrs[n], chains[n], msg,
                                decodes, addresses, clock)
        IN  /\ peers' = [peers EXCEPT ![n] = h.table]
            /\ last' = PeerCall("handleStream", n, h.err)
    /\ UNCHANGED <<knownAddrs, bootNodes>>
    /\ UNCHANGED nodeVars
    /\ UNCHANGED netVars
    /\ UNCHANGED concVars
    /\ UNCHANGED lifeVars
    /\ UNCHANGED engineVars
    /\ UNCHANGED bookVars
    /\ UNCHANGED lockVars

\* A caller on node n sends a message to the peer it names.
SendToPeerCall(n) ==
    /\ \E p \in NearRemotes(peers[n]), decodes \in BOOLEAN,
          stream \in {Ok, ErrStream, ErrWrite} :
        LET r == SendToPeerVia(n, p, MsgTypeGetHeight, NoField, decodes, stream)
        IN  last' = [op |-> "SendToPeer", node |-> n, err |-> r.err,
                     pre |-> peers[n], target |-> p, decodes |-> decodes,
                     transport |-> r.transport]
    /\ UNCHANGED p2pVars
    /\ UNCHANGED nodeVars
    /\ UNCHANGED netVars
    /\ UNCHANGED concVars
    /\ UNCHANGED lifeVars
    /\ UNCHANGED engineVars
    /\ UNCHANGED bookVars
    /\ UNCHANGED lockVars

\* Node.start dials the next boot node of the configuration of node n; the
\* boot node listens.
BootConnect(n) ==
    /\ \E b \in bootNodes[n] :
        LET r == ConnectToPeer(peers[n], BootAddr(b), Ok)
        IN  /\ peers' = [peers EXCEPT ![n] = r.table]
            /\ bootNodes' = [bootNodes EXCEPT ![n] = @ \ {b}]
            /\ last' = PeerCall("ConnectToPeer", n, r.err)
    /\ UNCHANGED knownAddrs
    /\ UNCHANGED nodeVars
    /\ UNCHANGED netVars
    /\ UNCHANGED concVars
    /\ UNCHANGED lifeVars
    /\ UNCHANGED engineVars
    /\ UNCHANGED bookVars
    /\ UNCHANGED lockVars

\* The ticker of discoveryLoop of node n fires.
DiscoveryTick(n) ==
    /\ \E candidates \in Candidates(peers[n], knownAddrs[n]),
          connect \in {Ok, ErrConnect} :
        \E r \in {discoverAndConnect(peers[n], knownAddrs[n], candidates, connect, clock)} :
            /\ peers' = [peers EXCEPT ![n] = r.table]
            /\ knownAddrs' = [knownAddrs EXCEPT ![n] = r.known]
            /\ last' = PeerCall("discoverAndConnect", n, Ok)
    /\ UNCHANGED bootNodes
    /\ UNCHANGED nodeVars
    /\ UNCHANGED netVars
    /\ UNCHANGED concVars
    /\ UNCHANGED lifeVars
    /\ UNCHANGED engineVars
    /\ UNCHANGED bookVars
    /\ UNCHANGED lockVars

\* The ticker of connectionMaintenanceLoop of node n fires: maintainConnections.
MaintenanceTick(n) ==
    /\ \E candidates \in Candidates(peers[n], knownAddrs[n]),
          connect \in {Ok, ErrConnect},
          aged \in AgedChoices(peers[n], knownAddrs[n]) :
        \E r \in {IF GetPeerCount(peers[n]) < MinPeers
                  THEN discoverAndConnect(peers[n], knownAddrs[n], candidates, connect, clock)
                  ELSE [table |-> peers[n], known |-> knownAddrs[n]]} :
            /\ peers' = [peers EXCEPT ![n] = r.table]
            /\ knownAddrs' = [knownAddrs EXCEPT ![n] = cleanupOldAddresses(r.known, aged)]
            /\ last' = PeerCall("maintainConnections", n, Ok)
    /\ UNCHANGED bootNodes
    /\ UNCHANGED nodeVars
    /\ UNCHANGED netVars
    /\ UNCHANGED concVars
    /\ UNCHANGED lifeVars
    /\ UNCHANGED engineVars
    /\ UNCHANGED bookVars
    /\ UNCHANGED lockVars

\* The ticker of addressExchangeLoop of node n fires: exchangeAddresses,
\* which does nothing on a node without peers.
AddressExchangeTick(n) ==
    /\ peers[n] # {}
    /\ Send(UNION {SendToPeer(n, p, MsgTypeGetAddr, NoField) : p \in peers[n] \cap Nodes})
    /\ last' = PeerCall("exchangeAddresses", n, Ok)
    /\ UNCHANGED chains
    /\ UNCHANGED p2pVars
    /\ UNCHANGED nodeVars
    /\ UNCHANGED concVars
    /\ UNCHANGED lifeVars
    /\ UNCHANGED engineVars
    /\ UNCHANGED bookVars
    /\ UNCHANGED lockVars

\* A message in flight reaches its receiver, whose handleStream runs it.
PeerDeliver ==
    /\ \E msg \in net :
      \E addresses \in getRandomAddresses(knownAddrs[msg.to], AddressExchangeCount) :
        \E n \in {msg.to} :
        \E h \in {handleStreamAt(n, peers[n], knownAddrs[n], chains[n], msg, TRUE,
                                  addresses, clock)} :
            /\ Cardinality((net \ {msg}) \cup {m \in h.sent : m.to \in Nodes}) <= MaxInFlight
            /\ net' = (net \ {msg}) \cup {m \in h.sent : m.to \in Nodes}
            /\ peers' = [peers EXCEPT ![n] = h.table]
            /\ knownAddrs' = [knownAddrs EXCEPT ![n] = h.known]
            /\ chains' = [chains EXCEPT ![n] = h.chain]
            /\ last' = PeerCall("handleStream", n, h.err)
    /\ UNCHANGED bootNodes
    /\ UNCHANGED nodeVars
    /\ UNCHANGED concVars
    /\ UNCHANGED lifeVars
    /\ UNCHANGED engineVars
    /\ UNCHANGED bookVars
    /\ UNCHANGED lockVars

\* The production ticker of node n fires; the sends of the broadcast to the
\* peers in `failed` fail.
ProduceTickVia(n) ==
    /\ chains[n].mem.height < MaxDiscHeight
    /\ \E pending \in PendingOrders(chains[n].mem), now \in Timestamps,
          failed \in SUBSET peers[n] :
        LET r == produceBlockVia(n, chains[n], peers[n], failed, pending, now, "ok")
        IN  /\ Send(r.broadcast.sent)
            /\ chains' = [chains EXCEPT ![n] = r.chain]
            /\ last' = [op |-> "produceBlock", node |-> n, err |-> r.err,
                        pre |-> peers[n], failed |-> failed, block |-> r.block,
                        broadcast |-> r.broadcast]
    /\ UNCHANGED p2pVars
    /\ UNCHANGED nodeVars
    /\ UNCHANGED concVars
    /\ UNCHANGED lifeVars
    /\ UNCHANGED engineVars
    /\ UNCHANGED bookVars
    /\ UNCHANGED lockVars

\* One node and the remote peers that reach it.
PeerNext ==
    \/ \E n \in ListeningNodes : InboundStream(n)
    \/ \E n \in ListeningNodes : SendToPeerCall(n)
    \/ \E n \in ListeningNodes : DiscoveryTick(n)

PeerSpec == Init /\ [][PeerNext]_vars

\* The three nodes dial their boot nodes, produce blocks and broadcast them.
BroadcastNext ==
    \/ \E n \in Nodes : BootConnect(n)
    \/ \E n \in Nodes : ProduceTickVia(n)
    \/ PeerDeliver

BroadcastSpec == Init /\ [][BroadcastNext]_vars

\* The three nodes: N1 is the bootstrap node, N2 and N3 have it as their
\* boot node.
DiscNext ==
    \/ \E n \in Nodes : BootConnect(n)
    \/ \E n \in DiscoveryNodes : DiscoveryTick(n)
    \/ \E n \in MaintenanceNodes : MaintenanceTick(n)
    \/ \E n \in Nodes : AddressExchangeTick(n)
    \/ PeerDeliver

DiscSpec == Init /\ [][DiscNext]_vars

\* The boot nodes are dialed, the tickers keep firing and the network keeps
\* delivering.
DiscFairSpec ==
    /\ Init
    /\ [][DiscNext]_vars
    /\ WF_vars(PeerDeliver)
    /\ WF_vars(\E n \in Nodes : BootConnect(n))
    /\ WF_vars(\E n \in Nodes : AddressExchangeTick(n))
    /\ WF_vars(\E n \in DiscoveryNodes : DiscoveryTick(n))

(***************************************************************************)
(* Actions of the consensus engine of node N1.                             *)
(***************************************************************************)
EngineNode == "N1"

EngineCallRecord(op, err) == [op |-> op, err |-> err, pre |-> engine]

\* runNode makes the engine of a node whose configuration says whether it
\* is a validator.
NewEngineCall ==
    /\ ~engine.made
    /\ \E config \in BOOLEAN :
        /\ engine' = NewEngine(config)
        /\ last' = EngineCallRecord("NewEngine", Ok)
    /\ UNCHANGED chainVars
    /\ UNCHANGED p2pVars
    /\ UNCHANGED netVars
    /\ UNCHANGED concVars
    /\ UNCHANGED lifeVars
    /\ UNCHANGED bookVars
    /\ UNCHANGED lockVars

EngineStartCall ==
    /\ engine.made
    /\ engine.started < MaxEngineStarts
    /\ LET r == EngineStart(engine)
       IN  /\ engine' = r.engine
           /\ last' = EngineCallRecord("Start", r.err)
    /\ UNCHANGED chainVars
    /\ UNCHANGED p2pVars
    /\ UNCHANGED netVars
    /\ UNCHANGED concVars
    /\ UNCHANGED lifeVars
    /\ UNCHANGED bookVars
    /\ UNCHANGED lockVars

EngineStopCall ==
    /\ engine.made
    /\ LET r == EngineStop(engine)
       IN  /\ engine' = r.engine
           /\ last' = EngineCallRecord("Stop", r.err)
    /\ UNCHANGED chainVars
    /\ UNCHANGED p2pVars
    /\ UNCHANGED netVars
    /\ UNCHANGED concVars
    /\ UNCHANGED lifeVars
    /\ UNCHANGED bookVars
    /\ UNCHANGED lockVars

SetValidatorCall ==
    /\ engine.made
    /\ \E isValidator \in BOOLEAN :
        /\ engine' = SetValidator(engine, isValidator)
        /\ last' = EngineCallRecord("SetValidator", Ok)
    /\ UNCHANGED chainVars
    /\ UNCHANGED p2pVars
    /\ UNCHANGED netVars
    /\ UNCHANGED concVars
    /\ UNCHANGED lifeVars
    /\ UNCHANGED bookVars
    /\ UNCHANGED lockVars

\* The ticker of a blockProductionLoop fires: produceBlock.
ProductionIteration ==
    /\ engine.production > 0
    /\ chains[EngineNode].mem.height < MaxHeight
    /\ \E pending \in PendingOrders(chains[EngineNode].mem), now \in Timestamps :
        LET r == produceBlockVia(EngineNode, chains[EngineNode], peers[EngineNode],
                                 {}, pending, now, "ok")
        IN  /\ Send(r.broadcast.sent)
            /\ chains' = [chains EXCEPT ![EngineNode] = r.chain]
            /\ last' = EngineCallRecord("produceBlock", r.err)
    /\ UNCHANGED engine
    /\ UNCHANGED nodeVars
    /\ UNCHANGED p2pVars
    /\ UNCHANGED concVars
    /\ UNCHANGED lifeVars
    /\ UNCHANGED bookVars
    /\ UNCHANGED lockVars

\* The ticker of a syncLoop fires: syncWithPeers, which asks the first peer
\* of the table for its height.
SyncIteration ==
    /\ engine.sync > 0
    /\ \/ /\ peers[EngineNode] \cap Nodes = {}
          /\ UNCHANGED net
       \/ \E first \in peers[EngineNode] \cap Nodes :
             Send(syncWithPeers(EngineNode, first))
    /\ last' = EngineCallRecord("syncWithPeers", Ok)
    /\ UNCHANGED engine
    /\ UNCHANGED chains
    /\ UNCHANGED nodeVars
    /\ UNCHANGED p2pVars
    /\ UNCHANGED concVars
    /\ UNCHANGED lifeVars
    /\ UNCHANGED bookVars
    /\ UNCHANGED lockVars

\* A blockProductionLoop finds Engine.ctx done at its select and returns.
ProductionReturn ==
    /\ engine.production > 0
    /\ engine.cancelled
    /\ engine' = [engine EXCEPT !.production = @ - 1]
    /\ last' = EngineCallRecord("blockProductionLoop returns", Ok)
    /\ UNCHANGED chainVars
    /\ UNCHANGED p2pVars
    /\ UNCHANGED netVars
    /\ UNCHANGED concVars
    /\ UNCHANGED lifeVars
    /\ UNCHANGED bookVars
    /\ UNCHANGED lockVars

\* A syncLoop finds Engine.ctx done at its select and returns.
SyncReturn ==
    /\ engine.sync > 0
    /\ engine.cancelled
    /\ engine' = [engine EXCEPT !.sync = @ - 1]
    /\ last' = EngineCallRecord("syncLoop returns", Ok)
    /\ UNCHANGED chainVars
    /\ UNCHANGED p2pVars
    /\ UNCHANGED netVars
    /\ UNCHANGED concVars
    /\ UNCHANGED lifeVars
    /\ UNCHANGED bookVars
    /\ UNCHANGED lockVars

EngineNext ==
    \/ NewEngineCall
    \/ EngineStartCall
    \/ EngineStopCall
    \/ SetValidatorCall
    \/ ProductionIteration
    \/ SyncIteration
    \/ ProductionReturn
    \/ SyncReturn

EngineSpec == Init /\ [][EngineNext]_vars

(***************************************************************************)
(* Blocks of any size handed to AddBlock.                                  *)
(***************************************************************************)
\* One transaction more than a block may hold: a signed patch_submit with
\* its patch set, as many times.
LargeTxs ==
    [i \in 1..(DefaultMaxTxPerBlock + 1) |->
        WithHash(Tx(TxTypePatchSubmit, "G1", "G1", 0, TRUE, TRUE))]

\* A block on top of the chain, well-formed as produceBlock makes it, that
\* holds these transactions.
LargeBlock(s, now) ==
    LET block == [NewBlock(s, <<>>, now) EXCEPT !.txs = LargeTxs]
    IN  [SetMerkleRoot(block) EXCEPT !.header.hash = BlockCalculateHash(block)]

\* A caller hands AddBlock the large block.
AddLargeBlockCall ==
    /\ height < MaxHeight
    /\ SumNonces(heap, DOMAIN heap) < MaxNonce
    /\ \E now \in Timestamps, io \in IoChoices :
        LET r == AddBlock(Mem, disk, LargeBlock(Mem, now), io)
        IN  /\ SetMem(r.s)
            /\ disk' = r.disk
            /\ faults' = Faults(r.err)
            /\ last' = Call("AddBlock", r.err, NoTx)
    /\ prev' = NoCall
    /\ UNCHANGED netVars
    /\ UNCHANGED concVars
    /\ UNCHANGED lifeVars
    /\ UNCHANGED p2pVars
    /\ UNCHANGED engineVars
    /\ UNCHANGED bookVars
    /\ UNCHANGED lockVars

BlockSizeNext ==
    \/ AddTransactionCall
    \/ ProduceBlockTick
    \/ AddLargeBlockCall

BlockSizeSpec == Init /\ [][BlockSizeNext]_vars

(***************************************************************************)
(* The known-address table of node N2, with the peers that write to it.    *)
(***************************************************************************)
BookNode == "N2"

\* The addr messages a peer sends: one of valid, invalid, known and
\* repeated addresses, and one of many addresses.
MixedAddresses ==
    <<"10.0.0.1:9001/p2p/R1", "localhost:9001", "10.0.0.3", "10.0.0.4:",
      "10.0.0.5:90:01", "127.0.0.1:9001", "10.0.0.2:x", "10.0.0.1:9001/p2p/R1">>

OneAddress == <<"10.0.0.1:9001/p2p/R1">>

ManyAddresses == ListOf(BulkAddresses)

\* The entries whose LastSeen is older than MaxAddressAge.
Stale(known, now) == {a \in DOMAIN known : now - known[a].lastSeen > MaxAddressAge}

\* The table of the node is small enough for a discovery iteration, and no
\* entry the iteration may attempt has reached the attempts that are
\* followed.
Attemptable(n) ==
    /\ Cardinality(DOMAIN knownAddrs[n]) <= MaxBook
    /\ \A a \in DOMAIN knownAddrs[n] :
          knownAddrs[n][a].quality >= MinCandidateQuality
              => knownAddrs[n][a].attempts < MaxAttempts

\* The peer R1 opens a stream to the node and sends addr with one of the
\* lists.
BookAddr(n, lists) ==
    /\ \E l \in lists :
        LET msg == Message(MsgTypeAddr, [addresses |-> l], RemoteId(1), n)
            h == handleStreamAt(n, peers[n], knownAddrs[n], chains[n], msg,
                                TRUE, <<>>, clock)
        IN  /\ peers' = [peers EXCEPT ![n] = h.table]
            /\ knownAddrs' = [knownAddrs EXCEPT ![n] = h.known]
            /\ last' = [op |-> "handleAddressMessage", node |-> n, err |-> h.err,
                        pre |-> peers[n], msg |-> msg]
    /\ UNCHANGED bootNodes
    /\ UNCHANGED nodeVars
    /\ UNCHANGED netVars
    /\ UNCHANGED concVars
    /\ UNCHANGED lifeVars
    /\ UNCHANGED engineVars
    /\ UNCHANGED bookVars
    /\ UNCHANGED lockVars

\* The peer R1 opens a stream to the node and sends getaddr.
BookGetAddr(n) ==
    /\ Cardinality({a \in DOMAIN knownAddrs[n] :
                        knownAddrs[n][a].quality > MinSharedQuality})
            - AddressExchangeCount <= MaxCut
    /\ \E addresses \in getRandomAddresses(knownAddrs[n], AddressExchangeCount) :
        LET msg == Message(MsgTypeGetAddr, NoField, RemoteId(1), n)
            h == handleStreamAt(n, peers[n], knownAddrs[n], chains[n], msg,
                                TRUE, addresses, clock)
        IN  /\ peers' = [peers EXCEPT ![n] = h.table]
            /\ knownAddrs' = [knownAddrs EXCEPT ![n] = h.known]
            /\ last' = [op |-> "handleGetAddressMessage", node |-> n,
                        err |-> h.err, pre |-> peers[n], msg |-> msg,
                        sent |-> h.sent]
    /\ UNCHANGED bootNodes
    /\ UNCHANGED nodeVars
    /\ UNCHANGED netVars
    /\ UNCHANGED concVars
    /\ UNCHANGED lifeVars
    /\ UNCHANGED engineVars
    /\ UNCHANGED bookVars
    /\ UNCHANGED lockVars

\* The ticker of discoveryLoop fires and discoverAndConnect runs to its end.
BookDiscoveryTick(n) ==
    /\ Attemptable(n)
    /\ dialing.pc = "idle"
    /\ DiscoveryTick(n)

\* The ticker of connectionMaintenanceLoop fires: maintainConnections,
\* whose dials end with one of the outcomes.
BookMaintenanceTick(n, outcomes) ==
    /\ Attemptable(n)
    /\ \E candidates \in Candidates(peers[n], knownAddrs[n]),
          connect \in outcomes :
        \E r \in {IF GetPeerCount(peers[n]) < MinPeers
                  THEN discoverAndConnect(peers[n], knownAddrs[n], candidates,
                                          connect, clock)
                  ELSE [table |-> peers[n], known |-> knownAddrs[n]]} :
            /\ peers' = [peers EXCEPT ![n] = r.table]
            /\ knownAddrs' = [knownAddrs EXCEPT ![n] =
                                cleanupOldAddresses(r.known, Stale(r.known, clock))]
            /\ last' = PeerCall("maintainConnections", n, Ok)
    /\ UNCHANGED bootNodes
    /\ UNCHANGED nodeVars
    /\ UNCHANGED netVars
    /\ UNCHANGED concVars
    /\ UNCHANGED lifeVars
    /\ UNCHANGED engineVars
    /\ UNCHANGED bookVars
    /\ UNCHANGED lockVars

\* More than MaxAddressAge passes.
ClockTick ==
    /\ clock + MaxAddressAge + 1 <= MaxClock
    /\ clock' = clock + MaxAddressAge + 1
    /\ last' = [op |-> "clock", err |-> Ok]
    /\ UNCHANGED dialing
    /\ UNCHANGED p2pVars
    /\ UNCHANGED nodeVars
    /\ UNCHANGED netVars
    /\ UNCHANGED concVars
    /\ UNCHANGED lifeVars
    /\ UNCHANGED engineVars
    /\ UNCHANGED lockVars

\* The ticker of discoveryLoop fires: discoverAndConnect reads the peer
\* count and draws its candidates.
DiscoveryBegin(n) ==
    /\ Attemptable(n)
    /\ dialing.pc = "idle"
    /\ dialing.rounds < MaxRounds
    /\ GetPeerCount(peers[n]) < MinPeers
    /\ \E candidates \in Candidates(peers[n], knownAddrs[n]) :
        /\ candidates # {}
        /\ dialing' = [pc |-> "loop", todo |-> candidates, address |-> "",
                       rounds |-> dialing.rounds + 1]
    /\ last' = PeerCall("getCandidateAddresses", n, Ok)
    /\ UNCHANGED clock
    /\ UNCHANGED p2pVars
    /\ UNCHANGED nodeVars
    /\ UNCHANGED netVars
    /\ UNCHANGED concVars
    /\ UNCHANGED lifeVars
    /\ UNCHANGED engineVars
    /\ UNCHANGED lockVars

\* attemptConnection of the next candidate counts the attempt and releases
\* the lock of the table.
AttemptCount(n) ==
    /\ dialing.pc = "loop"
    /\ \E a \in dialing.todo :
        /\ knownAddrs' = [knownAddrs EXCEPT ![n] = countAttempt(@, a)]
        /\ dialing' = [dialing EXCEPT !.pc = "dial", !.todo = @ \ {a}, !.address = a]
    /\ last' = PeerCall("attemptConnection", n, Ok)
    /\ UNCHANGED <<peers, bootNodes>>
    /\ UNCHANGED clock
    /\ UNCHANGED nodeVars
    /\ UNCHANGED netVars
    /\ UNCHANGED concVars
    /\ UNCHANGED lifeVars
    /\ UNCHANGED engineVars
    /\ UNCHANGED lockVars

\* The dial of attemptConnection ends and its outcome is written.
AttemptFinish(n) ==
    /\ dialing.pc = "dial"
    /\ \E connect \in {Ok, ErrConnect} :
        \E r \in {finishAttempt(peers[n], knownAddrs[n], dialing.address, connect, clock)} :
            /\ peers' = [peers EXCEPT ![n] = r.table]
            /\ knownAddrs' = [knownAddrs EXCEPT ![n] = r.known]
            /\ last' = PeerCall("updateAddressQuality", n,
                                 IF r.connected THEN Ok ELSE ErrConnect)
    /\ dialing' = [dialing EXCEPT !.pc = IF dialing.todo = {} THEN "idle" ELSE "loop",
                                  !.address = ""]
    /\ UNCHANGED bootNodes
    /\ UNCHANGED clock
    /\ UNCHANGED nodeVars
    /\ UNCHANGED netVars
    /\ UNCHANGED concVars
    /\ UNCHANGED lifeVars
    /\ UNCHANGED engineVars
    /\ UNCHANGED lockVars

\* The table as the handlers and the tickers of the node write it, each
\* handler and each iteration in one step.
BookNext ==
    \/ BookAddr(BookNode, {MixedAddresses})
    \/ BookGetAddr(BookNode)
    \/ BookDiscoveryTick(BookNode)
    \/ BookMaintenanceTick(BookNode, {Ok, ErrConnect})
    \/ ClockTick

BookSpec == Init /\ [][BookNext]_vars

\* The address exchange with a peer that knows many addresses.
ExchangeNext ==
    \/ BookAddr(BookNode, {MixedAddresses, ManyAddresses})
    \/ BookGetAddr(BookNode)
    \/ BookDiscoveryTick(BookNode)

ExchangeSpec == Init /\ [][ExchangeNext]_vars

\* The discovery loop step by step, beside the maintenance loop, whose
\* dials fail, and the handler of addr.
RaceNext ==
    \/ BookAddr(BookNode, {OneAddress})
    \/ BookMaintenanceTick(BookNode, {ErrConnect})
    \/ ClockTick
    \/ DiscoveryBegin(BookNode)
    \/ AttemptCount(BookNode)
    \/ AttemptFinish(BookNode)

RaceSpec == Init /\ [][RaceNext]_vars

\* The peer R1 speaks to the node during the first hours and is silent from
\* then on.
PeerSpeaks(n) ==
    /\ clock = 0
    /\ BookAddr(n, {OneAddress})

SilenceNext ==
    \/ PeerSpeaks(BookNode)
    \/ BookDiscoveryTick(BookNode)
    \/ BookMaintenanceTick(BookNode, {ErrConnect})
    \/ ClockTick

\* Time passes and the tickers of the node keep firing.
SilenceSpec ==
    /\ Init
    /\ [][SilenceNext]_vars
    /\ WF_vars(ClockTick)
    /\ WF_vars(BookDiscoveryTick(BookNode))
    /\ WF_vars(BookMaintenanceTick(BookNode, {ErrConnect}))
(***************************************************************************)
(* The five locks of one node.  Every operation is followed as the         *)
(* sequence of Lock, RLock, Unlock and RUnlock calls it makes, in the      *)
(* order of its code; up to MaxTasks goroutines run operations side by     *)
(* side.  Goroutines have no identity: lockTasks is the bag of the         *)
(* operations under way.                                                   *)
(* The locks are sync.RWMutex: Lock waits for the writer and every reader  *)
(* to leave, and from the moment Lock is called no new RLock is granted.   *)
(***************************************************************************)
Mutexes == {"e.mu", "bc.mu", "n.peersMu", "n.handlersMu", "pd.addrsMu"}

Step(do, m) == [do |-> do, mu |-> m]

\* mu.Lock() ... mu.Unlock() around code that takes no other lock.
Exclusive(m) == <<Step("Lock", m), Step("Unlock", m)>>

\* mu.RLock() ... mu.RUnlock() around code that takes no other lock.
Shared(m) == <<Step("RLock", m), Step("RUnlock", m)>>

RegisterHandlerLocks == Exclusive("n.handlersMu")

\* Engine.Start registers its four handlers while it holds e.mu.
EngineStartLocks ==
    <<Step("Lock", "e.mu")>> \o RegisterHandlerLocks \o RegisterHandlerLocks
        \o RegisterHandlerLocks \o RegisterHandlerLocks
        \o <<Step("Unlock", "e.mu")>>

\* Engine.Stop and Engine.SetValidator.
EngineStopLocks == Exclusive("e.mu")

IsValidatorLocks == Shared("e.mu")

\* AddTransaction holds bc.mu; validateTransaction and GetAccount take no
\* lock.
AddTransactionLocks == Exclusive("bc.mu")

GetHeightLocks == Shared("bc.mu")

GetPeerCountLocks == Shared("n.peersMu")

\* Broadcast copies the peer ids under the read lock and sends without it.
BroadcastLocks == Shared("n.peersMu")

\* SubmitTransaction: AddTransaction, then Broadcast.
SubmitTransactionLocks == AddTransactionLocks \o BroadcastLocks

\* produceBlock: GetPendingTransactions, GetLastBlock, GetHeight, AddBlock,
\* Broadcast, each releasing before the next begins.
produceBlockLocks ==
    Shared("bc.mu") \o Shared("bc.mu") \o GetHeightLocks
        \o Exclusive("bc.mu") \o BroadcastLocks

\* syncWithPeers: GetPeers; RequestHeight sends without a lock.
syncWithPeersLocks == Shared("n.peersMu")

\* handleHealth of the RPC server: GetHeight, then GetPeerCount (get_height
\* of handleRPC is GetHeight alone).
handleHealthLocks == GetHeightLocks \o GetPeerCountLocks

\* The handlers a stream can reach: none registered or one that takes no
\* lock (block, transaction, get_blocks); handleGetHeight; handleAddressMessage
\* with one valid address (addKnownAddress); handleGetAddressMessage
\* (getRandomAddresses).
HandlerLocks ==
    {<<>>, GetHeightLocks, Exclusive("pd.addrsMu"), Shared("pd.addrsMu")}

handleStreamLocks_HoldsPeerLock(handler) ==
    <<Step("Lock", "n.peersMu")>> \o Shared("n.handlersMu") \o handler
        \o <<Step("Unlock", "n.peersMu")>>

\* handleStream: the peer entry under peersMu, the handler lookup under
\* handlersMu, and the handler after both are released.
handleStreamLocks(handler) ==
    Exclusive("n.peersMu") \o Shared("n.handlersMu") \o handler

\* attemptConnection: Attempts++ in one critical section,
\* updateAddressQuality in another.
attemptConnectionLocks == Exclusive("pd.addrsMu") \o Exclusive("pd.addrsMu")

\* discoverAndConnect with one candidate: GetPeerCount,
\* getCandidateAddresses (IsConnected takes no lock), attemptConnection.
discoverAndConnectLocks ==
    GetPeerCountLocks \o Shared("pd.addrsMu") \o attemptConnectionLocks

\* exchangeAddresses: GetConnectedPeers; SendToPeer takes no lock.
exchangeAddressesLocks == Shared("n.peersMu")

\* maintainConnections: GetPeerCount, discoverAndConnect when the node has
\* fewer than MinPeers peers, cleanupOldAddresses.
maintainConnectionsLocks ==
    {GetPeerCountLocks \o Exclusive("pd.addrsMu"),
     GetPeerCountLocks \o discoverAndConnectLocks \o Exclusive("pd.addrsMu")}

\* GetStats calls GetPeerCount while it holds addrsMu for reading.
GetStatsLocks ==
    <<Step("RLock", "pd.addrsMu")>> \o GetPeerCountLocks
        \o <<Step("RUnlock", "pd.addrsMu")>>

\* ConnectToPeer enters the peer under peersMu after the dial.
ConnectToPeerLocks == Exclusive("n.peersMu")

LockPrograms ==
    {EngineStartLocks,
     EngineStopLocks,
     IsValidatorLocks,
     SubmitTransactionLocks,
     produceBlockLocks,
     syncWithPeersLocks,
     handleHealthLocks,
     discoverAndConnectLocks,
     exchangeAddressesLocks,
     GetStatsLocks,
     ConnectToPeerLocks}
        \cup {handleStreamLocks(h) : h \in HandlerLocks}
        \cup maintainConnectionsLocks

\* The goroutines inside an operation.
LockTasks == BagToSet(lockTasks)

Holding(t, m, mode) ==
    \E i \in DOMAIN t.held : t.held[i] = [mu |-> m, mode |-> mode]

NextStep(t) == Head(t.steps)

Calls(t, do) == t.steps # <<>> /\ NextStep(t).do = do

\* The goroutines inside Lock() on the mutex.
PendingWriters(m) ==
    {t \in LockTasks : t.pending /\ NextStep(t).mu = m}

LockGranted(t) ==
    /\ Calls(t, "Lock")
    /\ t.pending
    /\ \A u \in LockTasks :
           ~Holding(u, NextStep(t).mu, "W") /\ ~Holding(u, NextStep(t).mu, "R")

RLockGranted(t) ==
    /\ Calls(t, "RLock")
    /\ \A u \in LockTasks : ~Holding(u, NextStep(t).mu, "W")
    /\ PendingWriters(NextStep(t).mu) = {}

\* held without its last entry for the mutex m.
Released(held, m) ==
    LET last_i == CHOOSE i \in DOMAIN held :
                      /\ held[i].mu = m
                      /\ \A j \in DOMAIN held : held[j].mu = m => j <= i
    IN  SubSeq(held, 1, last_i - 1) \o SubSeq(held, last_i + 1, Len(held))

\* The goroutine in state t goes on in state u.
Becomes(t, u) == lockTasks' = (lockTasks (-) SetToBag({t})) (+) SetToBag({u})

Acquired(t, mode) ==
    /\ Becomes(t, [t EXCEPT !.steps = Tail(@),
                            !.held = Append(@, [mu |-> NextStep(t).mu, mode |-> mode]),
                            !.pending = FALSE])
    /\ lockOrders' = lockOrders \cup
           {<<t.held[i].mu, NextStep(t).mu>> : i \in DOMAIN t.held}

LockRest ==
    /\ UNCHANGED last
    /\ UNCHANGED nodeVars
    /\ UNCHANGED netVars
    /\ UNCHANGED concVars
    /\ UNCHANGED lifeVars
    /\ UNCHANGED p2pVars
    /\ UNCHANGED engineVars
    /\ UNCHANGED bookVars

\* A goroutine begins an operation.
LockBegin ==
    /\ BagCardinality(lockTasks) < MaxTasks
    /\ \E p \in LockPrograms :
           lockTasks' = lockTasks (+)
               SetToBag({[steps |-> p, held |-> <<>>, pending |-> FALSE]})
    /\ UNCHANGED lockOrders
    /\ LockRest

\* The goroutine calls Lock(): from now on the mutex grants no new RLock.
LockRequest(t) ==
    /\ Calls(t, "Lock")
    /\ ~t.pending
    /\ Becomes(t, [t EXCEPT !.pending = TRUE])
    /\ UNCHANGED lockOrders
    /\ LockRest

\* Lock() returns.
LockAcquire(t) ==
    /\ LockGranted(t)
    /\ Acquired(t, "W")
    /\ LockRest

\* RLock() returns.
LockRAcquire(t) ==
    /\ RLockGranted(t)
    /\ Acquired(t, "R")
    /\ LockRest

\* Unlock() or RUnlock(); the operation ends with its last call.
LockRelease(t) ==
    /\ Calls(t, "Unlock") \/ Calls(t, "RUnlock")
    /\ IF Len(t.steps) = 1
       THEN lockTasks' = lockTasks (-) SetToBag({t})
       ELSE Becomes(t, [t EXCEPT !.steps = Tail(@),
                                 !.held = Released(@, NextStep(t).mu)])
    /\ UNCHANGED lockOrders
    /\ LockRest

LockNext ==
    \/ LockBegin
    \/ \E t \in LockTasks :
           \/ LockRequest(t)
           \/ LockAcquire(t)
           \/ LockRAcquire(t)
           \/ LockRelease(t)

LockSpec == Init /\ [][LockNext]_vars


(***************************************************************************)
(* What a client can observe of a chain state.                             *)
(***************************************************************************)
Balance(s, a) == GetAccount(s, a).balance

Nonce(s, a) == GetAccount(s, a).nonce

RECURSIVE SumBalances(_, _)
SumBalances(s, addrs) ==
    IF addrs = {} THEN 0
    ELSE LET a == CHOOSE x \in addrs : TRUE
         IN  Balance(s, a) + SumBalances(s, addrs \ {a})

TotalBalance(s) == SumBalances(s, Addresses)

SameAccounts(s, t) ==
    \A a \in Addresses : Balance(s, a) = Balance(t, a) /\ Nonce(s, a) = Nonce(t, a)

SameChainState(s, t) ==
    /\ s.blocks = t.blocks
    /\ s.height = t.height
    /\ s.lastBlock = t.lastBlock
    /\ s.txPool = t.txPool
    /\ SameAccounts(s, t)

IsPrefix(p, q) == Len(p) <= Len(q) /\ SubSeq(q, 1, Len(p)) = p

\* The last call appended a block to the chain it started from.
Appended == blocks = Append(last.pre.blocks, lastBlock)

\* The accounts after the first n transactions of txs were applied to s.
RECURSIVE AfterTxs(_, _, _)
AfterTxs(s, txs, n) ==
    IF n = 0 THEN s ELSE applyTransaction(AfterTxs(s, txs, n - 1), txs[n]).s

(***************************************************************************)
(* Claims.                                                                 *)
(***************************************************************************)

\* C1: when AddBlock returns a validation error or an error of applying a
\* transaction, the block list, height, last block, every account's balance
\* and nonce and the mempool are what they were before the call.
C1_FailedAddBlockChangesNothing ==
    (last.op = "AddBlock" /\ last.err # Ok /\ ~WriteFailed(last.err))
        => SameChainState(last.pre, Mem)

\* C2: on a validator a production tick appends a block whatever the mempool
\* holds (the file system permitting), and the block takes the pending
\* transactions out of the mempool.
C2_ProductionIncludesMempool ==
    (last.op = "produceBlock" /\ ~WriteFailed(last.err))
        => /\ last.err = Ok
           /\ Appended
           /\ \A h \in DOMAIN last.pre.txPool :
                 /\ h \notin DOMAIN txPool
                 /\ \E i \in 1..Len(lastBlock.txs) : lastBlock.txs[i].hash = h

\* C3: when a node whose chain state is fully persisted (no write has ever
\* failed) is stopped and started again on the same data directory, its
\* height, its block sequence and every account's balance and nonce are
\* what they were before.
C3_RestartRestoresState ==
    (/\ last.op = "NewBlockchain"
     /\ faults = 0
     /\ last.preDisk.blocksJson = last.pre.blocks
     /\ last.preDisk.accountsJson = accountsList(last.pre))
        => /\ height = last.pre.height
           /\ blocks = last.pre.blocks
           /\ SameAccounts(last.pre, Mem)

\* C4: (with a file system that never fails) every account's balance is at
\* least 0, and no AddTransaction or AddBlock call lowers an account's nonce.
C4_BalancesNonNegativeNoncesMonotone ==
    faults = 0
        => /\ \A a \in Addresses : Balance(Mem, a) >= 0
           /\ last.op \in {"AddTransaction", "AddBlock", "produceBlock"}
                 => \A a \in Addresses : Nonce(Mem, a) >= Nonce(last.pre, a)

\* C5: adjacent blocks of the chain are linked by height and hash, the first
\* block is the genesis (height 0, zero prev_hash, no transactions), and
\* (with a file system that never fails) no operation removes or changes a
\* block that was in the chain.
C5_ChainLinkedAndAppendOnly ==
    /\ \A i \in 1..(Len(blocks) - 1) :
          /\ blocks[i + 1].header.height = blocks[i].header.height + 1
          /\ blocks[i + 1].header.prevHash = blocks[i].header.hash
    /\ Len(blocks) >= 1
    /\ blocks[1].header.height = 0
    /\ blocks[1].header.prevHash = ZeroHash
    /\ blocks[1].txs = <<>>
    /\ (last.op # "none" /\ faults = 0) => IsPrefix(last.pre.blocks, blocks)

\* C6: AddBlock answers every block whose height is not the current height
\* plus one with the height error and changes nothing, a block it appends
\* has the current height plus one, and no two blocks of the chain have the
\* same height.
C6_WrongHeightRejected ==
    /\ \A b \in BlockInputs(Mem) :
          b.header.height # height + 1
              => /\ AddBlock(Mem, disk, b, "ok").err = ErrHeight
                 /\ AddBlock(Mem, disk, b, "ok").s = Mem
    /\ (last.op = "AddBlock" /\ last.err = ErrHeight) => SameChainState(last.pre, Mem)
    /\ (last.op = "AddBlock" /\ Len(blocks) > Len(last.pre.blocks))
          => lastBlock.header.height = last.pre.height + 1
    /\ \A i, j \in 1..Len(blocks) :
          i # j => blocks[i].header.height # blocks[j].header.height

\* C6 witness: a block of the height the chain already has at its tip, one
\* or more blocks above the genesis, was handed to AddBlock and rejected.
C6_Witness ==
    /\ last.op = "AddBlock"
    /\ last.err = ErrHeight
    /\ height >= 1

\* C7: a second AddTransaction with the transaction that the call before it
\* admitted returns the duplicate error, and the two calls together grow the
\* mempool by exactly one entry.
C7_SecondSubmissionIsDuplicate ==
    (last.op = "AddTransaction" /\ prev.op = "AddTransaction" /\ last.tx = prev.tx)
        => /\ last.err = ErrInPool
           /\ Cardinality(DOMAIN txPool) = prev.poolSize + 1

\* C8: each transfer of an appended block lowers the sender's balance by its
\* amount, raises the sender's nonce by one, raises the recipient's balance
\* by its amount, leaves the sum of all balances unchanged, and leaves both
\* accounts in the account map.
C8_TransferEffect ==
    (last.op = "AddBlock" /\ last.err = Ok /\ Appended)
        => \A i \in 1..Len(lastBlock.txs) :
              LET tx == lastBlock.txs[i]
                  s0 == AfterTxs(last.pre, lastBlock.txs, i - 1)
                  s1 == AfterTxs(last.pre, lastBlock.txs, i)
              IN  tx.type = TxTypeTransfer
                    => /\ Balance(s1, tx.from) = Balance(s0, tx.from) - tx.amount
                       /\ Nonce(s1, tx.from) = Nonce(s0, tx.from) + 1
                       /\ Balance(s1, tx.to) = Balance(s0, tx.to) + tx.amount
                       /\ TotalBalance(s1) = TotalBalance(s0)
                       /\ {tx.from, tx.to} \subseteq DOMAIN s1.accounts

\* C9: each patch_submit of an appended block raises the sender's balance by
\* the initial reward and its nonce by one, changes no other account, and
\* raises the sum of all balances by the initial reward.
C9_PatchSubmitEffect ==
    (last.op = "AddBlock" /\ last.err = Ok /\ Appended)
        => \A i \in 1..Len(lastBlock.txs) :
              LET tx == lastBlock.txs[i]
                  s0 == AfterTxs(last.pre, lastBlock.txs, i - 1)
                  s1 == AfterTxs(last.pre, lastBlock.txs, i)
              IN  tx.type = TxTypePatchSubmit
                    => /\ Balance(s1, tx.from) = Balance(s0, tx.from) + DefaultInitialReward
                       /\ Nonce(s1, tx.from) = Nonce(s0, tx.from) + 1
                       /\ \A a \in Addresses \ {tx.from} :
                             /\ Balance(s1, a) = Balance(s0, a)
                             /\ Nonce(s1, a) = Nonce(s0, a)
                       /\ TotalBalance(s1) = TotalBalance(s0) + DefaultInitialReward

\* C10: when the write of the chain at the end of AddBlock fails, AddBlock
\* returns the error and height, last block, block list, accounts and
\* mempool are what they were before the call.
C10_FailedWriteRollsBack ==
    (last.op = "AddBlock" /\ WriteFailed(last.err))
        => SameChainState(last.pre, Mem)

\* C11: AddBlock refuses a block whose merkle_root, as submitted, is not the
\* Merkle root of its transactions, and a block it appends is stored with
\* the merkle_root it was submitted with, which is the recomputed root.
C11_WrongMerkleRootRejected ==
    \A b \in BlockInputs(Mem) :
        LET r == AddBlock(Mem, disk, b, "ok")
        IN  /\ b.header.merkleRoot # calculateMerkleRoot(b) => r.err # Ok
            /\ r.err = Ok
                 => /\ r.s.lastBlock.header.merkleRoot = b.header.merkleRoot
                    /\ r.s.lastBlock.header.merkleRoot = calculateMerkleRoot(b)

\* C12: when AddBlock accepts a block the height grows by one, the block is
\* the last block, every mempool entry that is a transaction of the block
\* (the same transaction: the same computed hash) is gone from the mempool,
\* and every other mempool entry is still there, unchanged.
C12_AcceptedBlockFrame ==
    (last.op = "AddBlock" /\ last.err = Ok)
        => /\ height = last.pre.height + 1
           /\ Appended
           /\ \A h \in DOMAIN last.pre.txPool :
                 IF \E i \in 1..Len(lastBlock.txs) :
                        TxCalculateHash(lastBlock.txs[i]) = h
                 THEN h \notin DOMAIN txPool
                 ELSE h \in DOMAIN txPool /\ txPool[h] = last.pre.txPool[h]

\* C20: right after the chain was created on a fresh data directory the
\* height is 0, every genesis account is returned under its own address with
\* its own balance and nonce, and no two genesis addresses share a record.
C20_GenesisAccountsInstalled ==
    last.op = "none"
        => /\ height = 0
           /\ \A i \in 1..Len(GenesisAccounts) :
                 GetAccount(Mem, GenesisAccounts[i].address) = GenesisAccounts[i]
           /\ \A i, j \in 1..Len(GenesisAccounts) :
                 i # j => accounts[GenesisAccounts[i].address]
                              # accounts[GenesisAccounts[j].address]

\* The last call was a submit_transaction RPC carrying a transaction.
IsSubmitCall ==
    /\ last.op = "handleRPC"
    /\ last.req.json
    /\ last.req.hasMethod
    /\ last.req.method = "submit_transaction"

\* The last call was a get_balance RPC.
IsBalanceCall ==
    /\ last.op = "handleRPC"
    /\ last.req.json
    /\ last.req.hasMethod
    /\ last.req.method = "get_balance"

\* The params of a get_balance call carry an address string that parses.
WellFormedAddress(params) ==
    /\ params # NoField
    /\ params.kind = "object"
    /\ params.address # NoField
    /\ AddressFromString(params.address).err = Ok

\* C17: a submit_transaction call whose transaction passes the engine's
\* validation leaves that transaction in the mempool and answers with its
\* hash, and a call answered with success left its transaction in the
\* mempool.
C17_SubmitRpcAdmits ==
    IsSubmitCall
        => LET tx == last.req.params.transaction
           IN  /\ validateTransaction(last.pre, tx) = Ok
                    => /\ TxCalculateHash(tx) \in DOMAIN txPool
                       /\ last.resp.status = StatusOK
                       /\ last.resp.body.tx_hash = HashToString(TxCalculateHash(tx))
               /\ last.resp.status = StatusOK
                    => TxCalculateHash(tx) \in DOMAIN txPool

\* C18: a submit_transaction call with a transfer of more than its sender
\* holds is answered with status 500 and the insufficient-balance error,
\* admits nothing to the mempool, and leaves the chain state, and with it
\* what the next produced block does to height and balances, as it was.
C18_OverdrawRpcRefused ==
    (/\ IsSubmitCall
     /\ last.req.params.transaction.type = TxTypeTransfer
     /\ Balance(last.pre, last.req.params.transaction.from)
            < last.req.params.transaction.amount)
        => /\ last.resp.status = StatusInternalServerError
           /\ last.resp.body = [error |-> ErrBalance]
           /\ txPool = last.pre.txPool
           /\ SameChainState(last.pre, Mem)
           /\ \A pending \in PendingOrders(Mem), now \in Timestamps :
                 produceBlock(Mem, disk, pending, now, "ok").s
                     = produceBlock(last.pre, disk, pending, now, "ok").s

\* C19: get_balance without an address, or with one that does not parse, is
\* answered with status 400; an unknown method and a body that is no JSON
\* are answered with 400; get_height and get_balance for a well-formed
\* address are answered with 200, an address without an account giving
\* balance 0 and nonce 0.
C19_RpcStatusClasses ==
    last.op = "handleRPC"
        => /\ (IsBalanceCall /\ ~WellFormedAddress(last.req.params))
                 => last.resp.status = StatusBadRequest
           /\ (~last.req.json \/ ~last.req.hasMethod
                 \/ last.req.method \notin {"get_height", "get_balance",
                                            "submit_transaction"})
                 => last.resp.status = StatusBadRequest
           /\ (last.req.json /\ last.req.hasMethod /\ last.req.method = "get_height")
                 => /\ last.resp.status = StatusOK
                    /\ last.resp.body = [height |-> height]
           /\ (IsBalanceCall /\ WellFormedAddress(last.req.params))
                 => LET a == AddressFromString(last.req.params.address).addr
                    IN  /\ last.resp.status = StatusOK
                        /\ last.resp.body
                              = [balance |-> Balance(Mem, a), nonce |-> Nonce(Mem, a)]
                        /\ a \notin DOMAIN accounts
                              => last.resp.body = [balance |-> 0, nonce |-> 0]

\* What get_balance answers on node n for an address.
NodeBalance(n, a) ==
    [balance |-> Balance(chains[n].mem, a), nonce |-> Nonce(chains[n].mem, a)]

\* The transfer was submitted to node N1 and admitted there.
Submitted == TxCalculateHash(TransferA) \in DOMAIN chains["N1"].mem.txPool

\* All nodes report one height and answer get_balance alike for the sender
\* and for the recipient of the transfer.
Converged ==
    \A n, m \in Nodes :
        /\ chains[n].mem.height = chains[m].mem.height
        /\ NodeBalance(n, TransferA.from) = NodeBalance(m, TransferA.from)
        /\ NodeBalance(n, TransferA.to) = NodeBalance(m, TransferA.to)

\* C15: in the connected three-node network, once a transfer was submitted
\* to one node, eventually all three nodes report the same height and the
\* same balance and nonce for the sender and for the recipient.
C15_BlockPropagation == Submitted ~> Converged

\* The chain of the node that ran the last engine call, after the call.
LastChain == chains[last.node].mem

\* The last engine call was the handler of an inbound message of this type.
Handled(type) == last.op = HandlerOf(type) /\ last.msg.type = type

\* C13: an inbound block message is forwarded to AddBlock: a block that is
\* valid against the receiver's chain is appended to it, an invalid one
\* leaves the chain unchanged and no reply is sent.
C13_InboundBlockForwarded ==
    Handled(MsgTypeBlock) =>
        IF validateBlock(last.pre, last.msg.data) = Ok
        THEN /\ LastChain.height = last.pre.height + 1
             /\ LastChain.lastBlock = last.msg.data
             /\ LastChain.blocks = Append(last.pre.blocks, last.msg.data)
        ELSE /\ LastChain = last.pre
             /\ last.sent = {}

\* A valid inbound block was handled.
C13_ValidBlockHandled ==
    Handled(MsgTypeBlock) /\ validateBlock(last.pre, last.msg.data) = Ok

\* C14: an inbound transaction message is forwarded to AddTransaction: a
\* transaction that passes the receiver's validation is in the receiver's
\* mempool after the handler returned.
C14_InboundTransactionForwarded ==
    Handled(MsgTypeTransaction) =>
        (validateTransaction(last.pre, last.msg.data) = Ok
            => TxCalculateHash(last.msg.data) \in DOMAIN LastChain.txPool)

\* A transaction that passes the receiver's validation was handled.
C14_ValidTransactionHandled ==
    /\ Handled(MsgTypeTransaction)
    /\ validateTransaction(last.pre, last.msg.data) = Ok

\* The blocks of chain s above height h.
BlocksAbove(s, h) ==
    {s.blocks[i] : i \in {j \in DOMAIN s.blocks : s.blocks[j].header.height > h}}

\* C16: a node given a get_blocks message with from_height H sends the
\* requester each of its blocks of height above H.
C16_GetBlocksAnswered ==
    (Handled(MsgTypeGetBlocks) /\ last.err = Ok) =>
        \A b \in BlocksAbove(last.pre, last.msg.data.from_height) :
            \E m \in last.sent : m.to = last.msg.from /\ m.data = b

\* A get_blocks message was handled by a node that has a block to send.
C16_BlocksRequested ==
    /\ Handled(MsgTypeGetBlocks)
    /\ last.err = Ok
    /\ BlocksAbove(last.pre, last.msg.data.from_height) # {}

\* The genesis accounts as the configuration lists them, by address.
GenesisState ==
    [a \in Addresses |->
        IF \E i \in DOMAIN GenesisAccounts : GenesisAccounts[i].address = a
        THEN LET g == GenesisAccounts[CHOOSE i \in DOMAIN GenesisAccounts :
                                          GenesisAccounts[i].address = a]
             IN  [balance |-> g.balance, nonce |-> g.nonce]
        ELSE [balance |-> 0, nonce |-> 0]]

\* The effect one transaction of a block has on the accounts: a transfer
\* debits the sender, credits the recipient and advances the sender's nonce;
\* a patch_submit rewards the sender and advances its nonce.
ReplayTx(acc, tx) ==
    IF tx.type = TxTypeTransfer
    THEN LET debited == [acc EXCEPT ![tx.from] =
                            [balance |-> @.balance - tx.amount, nonce |-> @.nonce + 1]]
         IN  [debited EXCEPT ![tx.to].balance = @ + tx.amount]
    ELSE IF tx.type = TxTypePatchSubmit
    THEN [acc EXCEPT ![tx.from] =
             [balance |-> @.balance + DefaultInitialReward, nonce |-> @.nonce + 1]]
    ELSE acc

RECURSIVE ReplayTxs(_, _, _)
ReplayTxs(acc, txs, n) ==
    IF n = 0 THEN acc ELSE ReplayTx(ReplayTxs(acc, txs, n - 1), txs[n])

\* The accounts after the transactions of the first n blocks of chain bs.
RECURSIVE ReplayBlocks(_, _)
ReplayBlocks(bs, n) ==
    IF n = 0 THEN GenesisState
    ELSE ReplayTxs(ReplayBlocks(bs, n - 1), bs[n].txs, Len(bs[n].txs))

\* C28: the account state is the replay of the chain: every account's
\* balance and nonce are those that result from the genesis accounts by
\* applying, in order, the transactions of the blocks in the chain.
C28_AccountsAreReplayOfChain ==
    \A a \in Addresses :
        /\ Balance(Mem, a) = ReplayBlocks(blocks, Len(blocks))[a].balance
        /\ Nonce(Mem, a) = ReplayBlocks(blocks, Len(blocks))[a].nonce

\* The hashes of the transactions of all blocks of chain bs, as a bag of
\* positions: one element for every place a transaction stands at.
TxPlaces(bs) == {<<i, k>> : i \in DOMAIN bs, k \in 1..MaxBlockTxs} \cap
                UNION {{<<i, k>> : k \in DOMAIN bs[i].txs} : i \in DOMAIN bs}

\* C29: across all blocks of the chain, every transaction hash occurs at
\* most once.
C29_NoTransactionTwice ==
    \A p, q \in TxPlaces(blocks) :
        p # q => TxCalculateHash(blocks[p[1]].txs[p[2]])
                    # TxCalculateHash(blocks[q[1]].txs[q[2]])

\* C26: a balance query answers with a balance and a nonce that the account
\* had when the chain was not being changed: its value when the query
\* began, or after a block that was appended while the query ran; never a
\* value in between, and never a value left by a rejected block.
C26_BalanceQueryNeverTorn ==
    last.op = "get_balance" => last.response \in last.call.legal

\* C27: calls of AddBlock and AddTransaction take effect one at a time:
\* what a call returns and leaves behind is what the whole call makes of the
\* chain it found when it got the lock, and the chain holds one block per
\* height.
C27_BlockApplicationSerialized ==
    /\ last.op = "AddBlock" =>
          LET r == AddBlock(last.call.pre, last.call.preDisk, last.call.block, "ok")
          IN  last.err = r.err /\ last.post = r.s /\ last.postDisk = r.disk
    /\ last.op = "AddTransaction" =>
          LET r == AddTransaction(last.call.pre, last.call.tx)
          IN  last.err = r.err /\ last.post = r.s
    /\ \A i \in DOMAIN blocks : blocks[i].header.height = i - 1

\* A call of AddBlock whose block was made for the height the chain had when
\* the call began was refused for its height: another call got the lock
\* first and appended a block of that height.
C27_Witness ==
    /\ last.op = "AddBlock"
    /\ last.call.block.header.height = last.call.sawHeight + 1
    /\ last.err = ErrHeight

\* C21: without a configured private key the node keeps the key of its first
\* start: in every run the key pair, and so the validator address, is that
\* first key, and node.key holds it.
C21_NodeIdentityStable ==
    (privateKey = NoKey /\ process.proc # "none") =>
        /\ GetAddress(process.keyPair) = GetAddress(firstKey)
        /\ keyFile = PrivateKeyToHex(firstKey)

C22_PeerTableBounded == \A n \in Nodes : GetPeerCount(peers[n]) <= MaxPeers

\* C25: SendToPeer to a peer that is not in the live peer table fails with
\* a peer-not-found error and attempts no transport operation: it opens a
\* stream only to a peer that is in the table.
C25_SendToUnknownPeerFails ==
    (last.op = "SendToPeer" /\ last.target \notin last.pre) =>
        /\ last.err = "peer not found"
        /\ ~last.transport

\* C23: in the network of N1 (bootstrap, no boot nodes), N2 and N3 (boot
\* node N1), eventually every node has at least one peer in its table, and
\* eventually every node has at least two.
AllPeersAtLeast(k) == \A n \in Nodes : GetPeerCount(peers[n]) >= k

C23_ThreeNodeDiscovery == <>AllPeersAtLeast(1) /\ <>AllPeersAtLeast(2)

\* C24: a produceBlock that appended its block attempted one send to every
\* peer that was in the table, every peer whose send did not fail was sent
\* the block, the failed sends were not returned by Broadcast nor by
\* produceBlock, and the block is the last block of the chain.
C24_BroadcastFailuresNotFatal ==
    (last.op = "produceBlock" /\ last.err = Ok) =>
        /\ last.broadcast.attempted = last.pre
        /\ last.broadcast.sent =
              {Message(MsgTypeBlock, last.block, last.node, p) :
                  p \in last.pre \ last.failed}
        /\ last.broadcast.err = Ok
        /\ chains[last.node].mem.lastBlock = SetMerkleRoot(last.block)
        /\ chains[last.node].mem.height = last.block.header.height

\* A produceBlock whose broadcast failed for one peer and reached another.
C24_Witness ==
    /\ last.op = "produceBlock"
    /\ last.err = Ok
    /\ last.failed # {}
    /\ last.broadcast.sent # {}
    /\ chains[last.node].mem.height = last.block.header.height

\* C31: a block is produced only by an engine whose node is configured as a
\* validator and whose validator status is set: a node with is_validator =
\* false produces no block, and none after SetValidator(false).
C31_ProductionOnlyOnValidator ==
    last.op = "produceBlock" => (last.pre.config /\ last.pre.isValidator)

\* C39: Start on a running engine returns an error and starts no loop; Stop
\* on an engine that is not running succeeds and changes nothing; and while
\* the engine is running, the sync loop it started, and the production loop
\* if it started one, are alive with a context that is not done.
C39_EngineLifecycle ==
    /\ (last.op = "Start" /\ last.pre.isRunning) =>
          (last.err = ErrRunning /\ engine = last.pre)
    /\ (last.op = "Stop" /\ ~last.pre.isRunning) =>
          (last.err = Ok /\ engine = last.pre)
    /\ engine.isRunning => (engine.sync >= 1 /\ ~engine.cancelled)

\* C38: every block of the chain holds at most max_tx_per_block
\* transactions, whether produceBlock made it or AddBlock was handed it.
C38_BlockSizeBounded ==
    \A i \in DOMAIN blocks : Len(blocks[i].txs) <= DefaultMaxTxPerBlock

\* C32: a peer that stops communicating is eventually absent from the live
\* peer table, and with it from the peer count and from the targets of
\* Broadcast: once R1 has been silent for longer than MaxAddressAge it
\* leaves the table of the node.
C32_SilentPeerEvicted ==
    (clock = MaxClock /\ RemoteId(1) \in peers[BookNode])
        ~> (RemoteId(1) \notin peers[BookNode])

\* The step counts an attempt on address a of node n.
Attempted(n, a) ==
    /\ a \in DOMAIN knownAddrs[n]
    /\ a \in DOMAIN knownAddrs'[n]
    /\ knownAddrs'[n][a].attempts > knownAddrs[n][a].attempts

\* The endpoints of the peers of a table.
ConnectedEndpoints(table) == {ListenAddress(p) : p \in table}

C33_Step ==
    \A n \in Nodes :
        /\ \A a \in DOMAIN knownAddrs[n] :
              Attempted(n, a) =>
                  /\ GetPeerCount(peers[n]) < MinPeers
                  /\ a \notin ConnectedEndpoints(peers[n])
                  /\ knownAddrs[n][a].quality >= 10
        /\ ( /\ last'.op = "discoverAndConnect"
             /\ last'.node = n
             /\ GetPeerCount(peers[n]) < MinPeers
             /\ \E a \in DOMAIN knownAddrs[n] :
                    /\ a \notin ConnectedEndpoints(peers[n])
                    /\ knownAddrs[n][a].quality >= 10 )
               => \E a \in DOMAIN knownAddrs[n] : Attempted(n, a)

\* C33: a discovery iteration attempts connections only while the peer count
\* is below 8, never attempts the address of an endpoint the node is
\* connected to nor an address of quality below 10, and attempts at least
\* one address when the count is below 8 and such a candidate exists.
C33_DiscoveryCandidates == [][C33_Step]_vars

C34_InRange ==
    \A n \in Nodes : \A a \in DOMAIN knownAddrs[n] :
        knownAddrs[n][a].quality \in 0..100

C34_Step ==
    \A n \in Nodes : \A a \in DOMAIN knownAddrs'[n] :
        LET new == knownAddrs'[n][a]
        IN  IF a \notin DOMAIN knownAddrs[n] THEN new.quality = 50
            ELSE LET old == knownAddrs[n][a]
                 IN  /\ new.success = old.success + 1
                          => new.quality = (IF old.quality + 10 > 100 THEN 100
                                            ELSE old.quality + 10)
                     /\ new.success # old.success + 1
                          => \/ new.quality = old.quality
                             \/ /\ new.attempts = old.attempts + 1
                                /\ new.quality = (IF old.quality - 5 < 0 THEN 0
                                                  ELSE old.quality - 5)

C35_SuccessAtMostAttempts ==
    \A n \in Nodes : \A a \in DOMAIN knownAddrs[n] :
        knownAddrs[n][a].success <= knownAddrs[n][a].attempts

\* Entries whose host is not an IP address or whose port is empty.
C36_Invalid == {"localhost:9001", "10.0.0.3", "10.0.0.4:"}

\* Entries whose host is an IP address and whose port is not empty.
C36_Valid == {"10.0.0.1:9001/p2p/R1", "127.0.0.1:9001", "10.0.0.2:x"}

C36_Step ==
    last'.op = "handleAddressMessage" =>
        LET n == last'.node
            list == last'.msg.data.addresses
            named == {list[i] : i \in DOMAIN list}
        IN  /\ \A a \in DOMAIN knownAddrs[n] :
                  /\ a \in DOMAIN knownAddrs'[n]
                  /\ knownAddrs'[n][a] = knownAddrs[n][a]
            /\ \A a \in (named \cap C36_Valid) \ DOMAIN knownAddrs[n] :
                  /\ a \in DOMAIN knownAddrs'[n]
                  /\ knownAddrs'[n][a].quality = 50
                  /\ knownAddrs'[n][a].attempts = 0
                  /\ knownAddrs'[n][a].success = 0
            /\ \A a \in DOMAIN knownAddrs'[n] \ DOMAIN knownAddrs[n] :
                  a \in named \ C36_Invalid

\* C36: on receipt of an addr message no entry whose host is not an IP
\* address or whose port is empty enters the table, every valid entry that
\* is not known enters it with quality 50 and zero attempts and successes,
\* and every known entry is left as it is.
C36_AddrMessageEffect == [][C36_Step]_vars

\* An addr message has been handled: its valid unknown entries are in the
\* table as new, its invalid entries are not, and the known seed keeps the
\* quality its failed connections left it.
C36_Witness ==
    /\ last.op = "handleAddressMessage"
    /\ "10.0.0.2:x" \in DOMAIN knownAddrs[BookNode]
    /\ knownAddrs[BookNode]["10.0.0.2:x"].attempts = 0
    /\ "127.0.0.1:9001" \in DOMAIN knownAddrs[BookNode]
    /\ knownAddrs[BookNode]["127.0.0.1:9001"].quality < 50
    /\ "localhost:9001" \notin DOMAIN knownAddrs[BookNode]

Waiting(t) ==
    \/ Calls(t, "Lock") /\ t.pending /\ ~LockGranted(t)
    \/ Calls(t, "RLock") /\ ~RLockGranted(t)

\* A goroutine inside an operation whose next call returns.
CanStep(t) ==
    \/ Calls(t, "Lock") /\ (~t.pending \/ LockGranted(t))
    \/ RLockGranted(t)
    \/ Calls(t, "Unlock")
    \/ Calls(t, "RUnlock")

\* C40: over all interleavings of the operations of one node that take the
\* engine lock, the chain lock, the peer-table lock, the handler-registry
\* lock and the known-address lock, no set of goroutines waits forever
\* (whenever a goroutine waits for a lock, some goroutine inside an operation
\* can go on), and two locks held at once are always acquired in the same
\* order.
C40_NoDeadlock ==
    /\ (\E t \in LockTasks : Waiting(t)) => \E u \in LockTasks : CanStep(u)
    /\ \A o \in lockOrders : <<o[2], o[1]>> \notin lockOrders

\* Both nestings of the code have happened, and a goroutine holds addrsMu and
\* peersMu at once inside GetStats while a handleStream waits in Lock() for
\* peersMu and a third goroutine is refused the read lock behind it.
C40_Witness ==
    /\ lockOrders = {<<"e.mu", "n.handlersMu">>, <<"pd.addrsMu", "n.peersMu">>}
    /\ \E t, u, w \in LockTasks :
           /\ Holding(t, "pd.addrsMu", "R") /\ Holding(t, "n.peersMu", "R")
           /\ Waiting(u) /\ u.steps \in {handleStreamLocks(h) : h \in HandlerLocks}
           /\ Waiting(w) /\ Calls(w, "RLock") /\ NextStep(w).mu = "n.peersMu"
====
